---- MODULE Spec2Model ----
(***************************************************************************)
(* Model of the plasmic CLI (plasmic-cli/src/index.ts): the sync pass      *)
(* (syncProjects), the fix-imports run (fixImports), watch mode            *)
(* (watchProjects), path reconciliation (fixComponentPaths,                *)
(* fixProjectFilePaths, findSrcDirPath), the file index                    *)
(* (buildBaseNameToFiles) and import rewriting (fixAllImportStatements).   *)
(*                                                                         *)
(* A path relative to the source directory is a pair <<dir, base>>; an     *)
(* absolute path is <<SrcDir, dir, base>>.  The file system maps absolute  *)
(* paths to file contents.  The developer moves and copies files between   *)
(* runs; the remote design tool serves bundles at its current revision.    *)
(* JavaScript runs one callback at a time: a pass is interleaved with      *)
(* other passes only at its await (the fetch); `running` names the pass    *)
(* whose synchronous continuation is executing.                            *)
(***************************************************************************)
EXTENDS Integers, Sequences, FiniteSets, TLC

\* ---------------------------------------------------------------- bounds
MaxRuns == 2          \* processes started: sync, fix-imports, watch
MaxWatchPasses == 2   \* update notifications one watch process receives
MaxUserOps == 1       \* edits of the developer: a file moved or copied, an entry edited

\* ------------------------------------------------------------- universe
CompIds == {"c1", "c2"}
ProjIds == {"p1", "p2"}
\* A designer may give a component any name, also one that reads like an id.
Names == {"Btn", "c1"}
Slots == {1, 2}

SrcDir == "src"
NodeModules == "node_modules"
Dirs == {".", "a", "b", NodeModules}

\* File names the remote derives from a component name / project id.
RenderFile(n) == IF n = "Btn" THEN "PlasmicBtn.tsx" ELSE "Plasmicc1.tsx"
CssFile(n) == IF n = "Btn" THEN "PlasmicBtn.css" ELSE "Plasmicc1.css"
SkelFile(n) == IF n = "Btn" THEN "Btn.tsx" ELSE "c1.tsx"
ContextFile(p) == IF p = "p1" THEN "PlasmicContextp1.tsx" ELSE "PlasmicContextp2.tsx"
FontsFile(p) == IF p = "p1" THEN "PlasmicFontsp1.tsx" ELSE "PlasmicFontsp2.tsx"

Bases ==
  {RenderFile(n) : n \in Names} \cup {CssFile(n) : n \in Names}
    \cup {SkelFile(n) : n \in Names}
    \cup {ContextFile(p) : p \in ProjIds} \cup {FontsFile(p) : p \in ProjIds}

RelPaths == Dirs \X Bases
AbsPaths == {<<SrcDir>> \o p : p \in RelPaths}

\* ---------------------------------------------------------- path library
PathJoin(dir, rel) == <<dir>> \o rel
PathBasename(p) == p[Len(p)]
PathRelative(from, to) == IF to[1] = from THEN SubSeq(to, 2, Len(to)) ELSE <<"..">> \o to

\* ------------------------------------------------------------ file system
\* fs.existsSync
Exists(files, abs) == abs \in DOMAIN files

\* file-utils.writeFileContent: create-only unless force.
WriteFileContent(files, abs, content, force) ==
  IF ~force /\ Exists(files, abs) THEN files
  ELSE [f \in DOMAIN files \cup {abs} |-> IF f = abs THEN content ELSE files[f]]

\* code-utils.replaceImports: the references of the content are rewritten to
\* the paths of the tables; the rest of the content is kept.
ReplaceImports(prevContent) == [prevContent EXCEPT !.fixed = TRUE]

\* code-utils.isLocalModulePath
IsLocalModulePath(modulePath) == modulePath[1] \in Dirs

\* glob.sync(`${srcDir}/**/*.+(ts|css|tsx)`, {ignore: node_modules}): every
\* file under srcDir outside node_modules (all file names of the model carry
\* a tracked extension: .ts, .tsx or .css).
GlobSync(files) ==
  {f \in AbsPaths : Exists(files, f) /\ f[2] # NodeModules}

\* L.groupBy(allFiles, f => path.basename(f))
GroupByBasename(allFiles) ==
  [b \in {PathBasename(f) : f \in allFiles} |->
     {f \in allFiles : PathBasename(f) = b}]

\* buildBaseNameToFiles
BuildBaseNameToFiles(files) == GroupByBasename(GlobSync(files))

\* Variant: with several files of that name, the first one is taken.
FindSrcDirPathGuess(files, expectedPath, baseNameToFiles) ==
  LET fileName == PathBasename(expectedPath)
  IN  IF Exists(files, PathJoin(SrcDir, expectedPath))
        THEN [exit |-> FALSE, path |-> expectedPath, candidates |-> {}]
      ELSE IF fileName \notin DOMAIN baseNameToFiles
        THEN [exit |-> FALSE, path |-> expectedPath, candidates |-> {}]
      ELSE [exit |-> FALSE,
            path |-> PathRelative(SrcDir, CHOOSE f \in baseNameToFiles[fileName] : TRUE),
            candidates |-> baseNameToFiles[fileName]]

\* Variant: the file found is returned as globbed, not relative to srcDir.
FindSrcDirPathAbsolute(files, expectedPath, baseNameToFiles) ==
  LET fileName == PathBasename(expectedPath)
  IN  IF Exists(files, PathJoin(SrcDir, expectedPath))
        THEN [exit |-> FALSE, path |-> expectedPath, candidates |-> {}]
      ELSE IF fileName \notin DOMAIN baseNameToFiles
        THEN [exit |-> FALSE, path |-> expectedPath, candidates |-> {}]
      ELSE IF Cardinality(baseNameToFiles[fileName]) = 1
        THEN [exit |-> FALSE,
              path |-> CHOOSE f \in baseNameToFiles[fileName] : TRUE,
              candidates |-> baseNameToFiles[fileName]]
      ELSE [exit |-> TRUE, path |-> expectedPath,
            candidates |-> baseNameToFiles[fileName]]

\* Variant: a single file of that name elsewhere is not taken for the moved
\* file.
FindSrcDirPathKeep(files, expectedPath, baseNameToFiles) ==
  LET fileName == PathBasename(expectedPath)
  IN  IF Exists(files, PathJoin(SrcDir, expectedPath))
        THEN [exit |-> FALSE, path |-> expectedPath, candidates |-> {}]
      ELSE IF fileName \notin DOMAIN baseNameToFiles
        THEN [exit |-> FALSE, path |-> expectedPath, candidates |-> {}]
      ELSE IF Cardinality(baseNameToFiles[fileName]) = 1
        THEN [exit |-> FALSE, path |-> expectedPath,
              candidates |-> baseNameToFiles[fileName]]
      ELSE [exit |-> TRUE, path |-> expectedPath,
            candidates |-> baseNameToFiles[fileName]]

\* Variant: a missing file with no file of that name anywhere is an error.
FindSrcDirPathStrict(files, expectedPath, baseNameToFiles) ==
  LET fileName == PathBasename(expectedPath)
  IN  IF Exists(files, PathJoin(SrcDir, expectedPath))
        THEN [exit |-> FALSE, path |-> expectedPath, candidates |-> {}]
      ELSE IF fileName \notin DOMAIN baseNameToFiles
        THEN [exit |-> TRUE, path |-> expectedPath, candidates |-> {}]
      ELSE IF Cardinality(baseNameToFiles[fileName]) = 1
        THEN [exit |-> FALSE,
              path |-> PathRelative(SrcDir, CHOOSE f \in baseNameToFiles[fileName] : TRUE),
              candidates |-> baseNameToFiles[fileName]]
      ELSE [exit |-> TRUE, path |-> expectedPath,
            candidates |-> baseNameToFiles[fileName]]

\* Variant: the index is consulted before the declared path.
FindSrcDirPathIndexFirst(files, expectedPath, baseNameToFiles) ==
  LET fileName == PathBasename(expectedPath)
  IN  IF fileName \notin DOMAIN baseNameToFiles
        THEN [exit |-> FALSE, path |-> expectedPath, candidates |-> {}]
      ELSE IF Cardinality(baseNameToFiles[fileName]) = 1
        THEN [exit |-> FALSE,
              path |-> PathRelative(SrcDir, CHOOSE f \in baseNameToFiles[fileName] : TRUE),
              candidates |-> baseNameToFiles[fileName]]
      ELSE [exit |-> TRUE, path |-> expectedPath,
            candidates |-> baseNameToFiles[fileName]]

\* findSrcDirPath: [exit |-> TRUE] stands for console.error + process.exit(1).
FindSrcDirPath(files, expectedPath, baseNameToFiles) ==
  LET fileName == PathBasename(expectedPath)
  IN  IF Exists(files, PathJoin(SrcDir, expectedPath))
        THEN [exit |-> FALSE, path |-> expectedPath, candidates |-> {}]
      ELSE IF fileName \notin DOMAIN baseNameToFiles
        THEN [exit |-> FALSE, path |-> expectedPath, candidates |-> {}]
      ELSE IF Cardinality(baseNameToFiles[fileName]) = 1
        THEN [exit |-> FALSE,
              path |-> PathRelative(SrcDir, CHOOSE f \in baseNameToFiles[fileName] : TRUE),
              candidates |-> baseNameToFiles[fileName]]
      ELSE [exit |-> TRUE, path |-> expectedPath,
            candidates |-> baseNameToFiles[fileName]]

\* ------------------------------------------------------------ sequences
Range(seq) == {seq[n] : n \in 1..Len(seq)}

\* Variant: the map is keyed once and misses the entry appended last.
KeyByStale(list, field, key) ==
  LET hits == {n \in 1..(Len(list) - 1) : list[n][field] = key}
  IN  IF hits = {} THEN 0 ELSE CHOOSE n \in hits : \A m \in hits : m <= n

\* L.keyBy(list, key)[id]: the position of the entry with that key (the last
\* one wins when several share it), 0 when the key is absent.
KeyByIndex(list, field, key) ==
  LET hits == {n \in 1..Len(list) : list[n][field] = key}
  IN  IF hits = {} THEN 0 ELSE CHOOSE n \in hits : \A m \in hits : m <= n

\* list.find(pred on field): the first position, 0 when none.
FindIndex(list, field, key) ==
  LET hits == {n \in 1..Len(list) : list[n][field] = key}
  IN  IF hits = {} THEN 0 ELSE CHOOSE n \in hits : \A m \in hits : n <= m

\* ------------------------------------------------------- reconciliation
\* Variant: a missing file that cannot be found anywhere is reported.
ReconcileOneWarnMissing(files, baseNameToFiles, acc, key, field) ==
  IF acc.exit THEN acc
  ELSE
    LET old == acc.entry[field]
        found == {FindSrcDirPath(files, old, baseNameToFiles)}
        sameName == IF PathBasename(old) \in DOMAIN baseNameToFiles
                      THEN baseNameToFiles[PathBasename(old)] ELSE {}
    IN  CHOOSE out \in
          {LET call == [op |-> "find", key |-> key, field |-> field,
                        expected |-> old, found |-> r.path, exit |-> r.exit,
                        candidates |-> sameName,
                        existed |-> Exists(files, PathJoin(SrcDir, old)),
                        foundExists |-> Exists(files, PathJoin(SrcDir, r.path))]
           IN  IF r.exit
                 THEN [exit |-> TRUE, entry |-> acc.entry,
                       events |-> acc.events \o
                         <<call, [op |-> "error", key |-> key, expected |-> old,
                                  candidates |-> r.candidates]>>]
               ELSE IF r.path # old
                 THEN [exit |-> FALSE,
                       entry |-> [acc.entry EXCEPT ![field] = r.path],
                       events |-> acc.events \o
                         <<call,
                           [op |-> "warn", key |-> key, from |-> old, to |-> r.path],
                           [op |-> "set", key |-> key, field |-> field,
                            from |-> old, to |-> r.path]>>]
               ELSE [exit |-> FALSE, entry |-> acc.entry,
                     events |-> acc.events \o
                       (IF call.existed THEN <<call>>
                        ELSE <<call, [op |-> "warn", key |-> key,
                                      from |-> old, to |-> old]>>)]
             : r \in found} : TRUE

\* Variant: the move is reported, the entry keeps its old path.
ReconcileOneWarnOnly(files, baseNameToFiles, acc, key, field) ==
  IF acc.exit THEN acc
  ELSE
    LET old == acc.entry[field]
        found == {FindSrcDirPath(files, old, baseNameToFiles)}
        sameName == IF PathBasename(old) \in DOMAIN baseNameToFiles
                      THEN baseNameToFiles[PathBasename(old)] ELSE {}
    IN  CHOOSE out \in
          {LET call == [op |-> "find", key |-> key, field |-> field,
                        expected |-> old, found |-> r.path, exit |-> r.exit,
                        candidates |-> sameName,
                        existed |-> Exists(files, PathJoin(SrcDir, old)),
                        foundExists |-> Exists(files, PathJoin(SrcDir, r.path))]
           IN  IF r.exit
                 THEN [exit |-> TRUE, entry |-> acc.entry,
                       events |-> acc.events \o
                         <<call, [op |-> "error", key |-> key, expected |-> old,
                                  candidates |-> r.candidates]>>]
               ELSE IF r.path # old
                 THEN [exit |-> FALSE,
                       entry |-> acc.entry,
                       events |-> acc.events \o
                         <<call,
                           [op |-> "warn", key |-> key, from |-> old, to |-> r.path]>>]
               ELSE [exit |-> FALSE, entry |-> acc.entry,
                     events |-> acc.events \o <<call>>]
             : r \in found} : TRUE

\* One findSrcDirPath call on one path field of a tracked entry, with the
\* caller's "if (newPath !== entry.path) { console.warn; entry.path = newPath }".
\* acc = [exit, entry, events]; nothing more runs once process.exit was called.
\* (An operator's value is bound once by drawing it from a singleton set.)
ReconcileOne(files, baseNameToFiles, acc, key, field) ==
  IF acc.exit THEN acc
  ELSE
    LET old == acc.entry[field]
        found == {FindSrcDirPath(files, old, baseNameToFiles)}
        sameName == IF PathBasename(old) \in DOMAIN baseNameToFiles
                      THEN baseNameToFiles[PathBasename(old)] ELSE {}
    IN  CHOOSE out \in
          {LET call == [op |-> "find", key |-> key, field |-> field,
                        expected |-> old, found |-> r.path, exit |-> r.exit,
                        candidates |-> sameName,
                        existed |-> Exists(files, PathJoin(SrcDir, old)),
                        foundExists |-> Exists(files, PathJoin(SrcDir, r.path))]
           IN  IF r.exit
                 THEN [exit |-> TRUE, entry |-> acc.entry,
                       events |-> acc.events \o
                         <<call, [op |-> "error", key |-> key, expected |-> old,
                                  candidates |-> r.candidates]>>]
               ELSE IF r.path # old
                 THEN [exit |-> FALSE,
                       entry |-> [acc.entry EXCEPT ![field] = r.path],
                       events |-> acc.events \o
                         <<call,
                           [op |-> "warn", key |-> key, from |-> old, to |-> r.path],
                           [op |-> "set", key |-> key, field |-> field,
                            from |-> old, to |-> r.path]>>]
               ELSE [exit |-> FALSE, entry |-> acc.entry,
                     events |-> acc.events \o <<call>>]
             : r \in found} : TRUE

ReconcileField(files, baseNameToFiles, acc, key, field) ==
  CHOOSE out \in {ReconcileOne(files, baseNameToFiles, a, key, field) : a \in {acc}} : TRUE

\* Variant: the cross-reference path is reconciled whatever it points to.
FixComponentPathsAlways(files, compConfig, baseNameToFiles) ==
  LET a0 == [exit |-> FALSE, entry |-> compConfig, events |-> <<>>]
      a1 == ReconcileField(files, baseNameToFiles, a0, compConfig.id, "renderModuleFilePath")
      a2 == ReconcileField(files, baseNameToFiles, a1, compConfig.id, "cssFilePath")
      a3 == CHOOSE out \in
              {IF ~a.exit
                 THEN ReconcileField(files, baseNameToFiles, a, compConfig.id, "modulePath")
                 ELSE a : a \in {a2}} : TRUE
  IN  CHOOSE out \in
        {[a EXCEPT !.events =
            <<[op |-> "fixPaths", key |-> compConfig.id, before |-> compConfig]>> \o @]
           : a \in {a3}} : TRUE

FixComponentPaths(files, compConfig, baseNameToFiles) ==
  LET a0 == [exit |-> FALSE, entry |-> compConfig, events |-> <<>>]
      a1 == ReconcileField(files, baseNameToFiles, a0, compConfig.id, "renderModuleFilePath")
      a2 == ReconcileField(files, baseNameToFiles, a1, compConfig.id, "cssFilePath")
      a3 == CHOOSE out \in
              {IF ~a.exit /\ IsLocalModulePath(a.entry.modulePath)
                 THEN ReconcileField(files, baseNameToFiles, a, compConfig.id, "modulePath")
                 ELSE a : a \in {a2}} : TRUE
  IN  CHOOSE out \in
        {[a EXCEPT !.events =
            <<[op |-> "fixPaths", key |-> compConfig.id, before |-> compConfig]>> \o @]
           : a \in {a3}} : TRUE

FixProjectFilePaths(files, projectConfig, baseNameToFiles) ==
  LET a0 == [exit |-> FALSE, entry |-> projectConfig, events |-> <<>>]
      a1 == ReconcileField(files, baseNameToFiles, a0, projectConfig.projectId, "contextFilePath")
      a2 == ReconcileField(files, baseNameToFiles, a1, projectConfig.projectId, "fontsFilePath")
  IN  CHOOSE out \in
        {[a EXCEPT !.events =
            <<[op |-> "fixPaths", key |-> projectConfig.projectId,
               before |-> projectConfig]>> \o @]
           : a \in {a2}} : TRUE

\* ------------------------------------------------------------- writer
\* One writeFileContent call of the orchestrator, with its record in the log.
\* acc = [files, events].
Write(acc, rel, content, force, key) ==
  LET abs == PathJoin(SrcDir, rel)
  IN  CHOOSE out \in
        {[files |-> WriteFileContent(a.files, abs, content, force),
          events |-> Append(a.events,
             [op |-> "write", key |-> key, path |-> rel, content |-> content,
              force |-> force, existed |-> Exists(a.files, abs),
              changed |-> WriteFileContent(a.files, abs, content, force) # a.files])]
           : a \in {acc}} : TRUE

\* --------------------------------------------------------- import rewriter
\* fixFileImportStatements: readFileSync throws when the file is missing.
\* acc = [files, failed, events].
FixFileImportStatements(acc, srcDirFilePath, key) ==
  LET abs == PathJoin(SrcDir, srcDirFilePath)
  IN  CHOOSE out \in
        {IF a.failed THEN a
         ELSE IF ~Exists(a.files, abs)
           THEN [a EXCEPT !.failed = TRUE,
                   !.events = Append(@, [op |-> "readError", key |-> key,
                                         path |-> srcDirFilePath])]
         ELSE [files |-> WriteFileContent(a.files, abs,
                             ReplaceImports(a.files[abs]), TRUE),
               failed |-> FALSE,
               events |-> Append(a.events,
                  [op |-> "rewrite", key |-> key, path |-> srcDirFilePath])]
           : a \in {acc}} : TRUE

\* Variant: the render module is fixed again after the other files.
FixComponentImportStatementsTwice(acc, compConfig) ==
  LET a1 == FixFileImportStatements(acc, compConfig.renderModuleFilePath, compConfig.id)
      a2 == FixFileImportStatements(a1, compConfig.cssFilePath, compConfig.id)
      a3 == IF IsLocalModulePath(compConfig.modulePath)
              THEN FixFileImportStatements(a2, compConfig.modulePath, compConfig.id)
              ELSE a2
  IN  FixFileImportStatements(a3, compConfig.renderModuleFilePath, compConfig.id)

FixComponentImportStatements(acc, compConfig) ==
  LET a1 == FixFileImportStatements(acc, compConfig.renderModuleFilePath, compConfig.id)
      a2 == FixFileImportStatements(a1, compConfig.cssFilePath, compConfig.id)
  IN  IF IsLocalModulePath(compConfig.modulePath)
        THEN FixFileImportStatements(a2, compConfig.modulePath, compConfig.id)
        ELSE a2

\* The loop of fixAllImportStatements (lines 493-495), from component k on;
\* an exception ends it.
RECURSIVE FixImportsFrom(_, _, _)
FixImportsFrom(acc, components, k) ==
  IF k > Len(components) THEN acc
  ELSE CHOOSE out \in
         {IF a.failed THEN a ELSE FixImportsFrom(a, components, k + 1)
            : a \in {FixComponentImportStatements(acc, components[k])}} : TRUE

FixAllImportStatements(files, config) ==
  FixImportsFrom([files |-> files, failed |-> FALSE, events |-> <<>>],
                 config.components, 1)

\* ------------------------------------------------------------- remote
\* The projects of the design tool and the components each one serves.
ProjComps(p) == IF p = "p1" THEN <<"c1", "c2">> ELSE <<"c2">>

Content(kind, of, revision) ==
  [kind |-> kind, of |-> of, rev |-> revision, fixed |-> FALSE]

ComponentBundle(id, name, revision) ==
  [id |-> id, componentName |-> name,
   renderModule |-> Content("render", id, revision),
   skeletonModule |-> Content("skeleton", id, revision),
   cssRules |-> Content("css", id, revision),
   renderModuleFileName |-> <<".", RenderFile(name)>>,
   skeletonModuleFileName |-> <<".", SkelFile(name)>>,
   cssFileName |-> <<".", CssFile(name)>>]

\* api.projectComponents(projectId)
ProjectBundle(p, nameOf, revision) ==
  [results |-> [n \in 1..Len(ProjComps(p)) |->
                  ComponentBundle(ProjComps(p)[n], nameOf[ProjComps(p)[n]], revision)],
   projectConfig |->
     [projectId |-> p,
      contextModule |-> Content("context", p, revision),
      fontsModule |-> Content("fonts", p, revision),
      contextFileName |-> <<".", ContextFile(p)>>,
      fontsFileName |-> <<".", FontsFile(p)>>,
      contextTypeName |-> "PlasmicContext"]]

\* --------------------------------------------------------------- selector
\* `components` (lines 252-255) and shouldSyncComponents (lines 256-264).
SelectorList(opts, config) ==
  IF Len(opts.components) > 0 THEN opts.components
  ELSE [n \in 1..Len(config.components) |-> config.components[n].id]

\* Variant: without an explicit filter every component is let through.
ShouldSyncAsClaimed(components, opts, id, name) ==
  \/ Len(opts.components) = 0
  \/ id \in Range(opts.components) \/ name \in Range(opts.components)

ShouldSyncComponents(components, opts, id, name) ==
  IF Len(components) = 0 \/ (Len(opts.components) = 0 /\ opts.includeNew)
    THEN TRUE
  ELSE id \in Range(components) \/ name \in Range(components)

ProjectIdsOf(opts, config) ==
  IF Len(opts.projects) > 0 THEN opts.projects
  ELSE [n \in 1..Len(config.components) |-> config.components[n].projectId]

\* ================================================================ state
VARIABLES
  fs,        \* the files under srcDir: absolute path -> content
  disk,      \* plasmic.json: [components, projects]
  pass,      \* the sync passes / fix-imports runs of the current process
  running,   \* the pass whose synchronous code is executing, 0 if none
  watch,     \* [on, opts, left]: the watch process, its arguments, and the
             \* update notifications it may still receive
  design,    \* the remote: [nameOf, rev]
  runs,      \* processes started so far
  userOps    \* files the developer has moved or copied so far

vars == <<fs, disk, pass, running, watch, design, runs, userOps>>

\* The command lines tried: --projects, --components, --include-new.
OptProjects == {<<>>, <<"p2">>, <<"p1", "p2">>}
OptFilters ==
  {[components |-> <<>>, includeNew |-> FALSE],
   [components |-> <<>>, includeNew |-> TRUE],
   [components |-> <<"c1">>, includeNew |-> FALSE],
   [components |-> <<"Btn">>, includeNew |-> TRUE]}
Opts ==
  {[projects |-> p, components |-> f.components, includeNew |-> f.includeNew] :
     p \in OptProjects, f \in OptFilters}
\* The designs the remote may hold: the name of each component.
Designs ==
  {[c \in CompIds |-> IF c = "c1" THEN "Btn" ELSE "c1"],
   [c \in CompIds |-> "Btn"]}
NoOpts == [projects |-> <<>>, components |-> <<>>, includeNew |-> FALSE]
\* The command lines tried for `plasmic watch`.
WatchOpts ==
  {[projects |-> <<>>, components |-> <<>>, includeNew |-> TRUE]}
NoWatch == [on |-> FALSE, opts |-> NoOpts, left |-> 0]
\* Files the developer wrote before Plasmic was ever run: a component of
\* their own, with the file name the scaffold of Btn will get.
UserContent == [kind |-> "user", of |-> "", rev |-> 0, fixed |-> FALSE]
UserFiles == {<<SrcDir, "a", SkelFile("Btn")>>}

EmptyConfig == [components |-> <<>>, projects |-> <<>>]

IdlePass ==
  [pc |-> "idle", kind |-> "none", opts |-> NoOpts, config |-> EmptyConfig,
   config0 |-> EmptyConfig, projectIds |-> <<>>, components |-> <<>>,
   baseNameToFiles |-> GroupByBasename({}), rev |-> 0, i |-> 0, j |-> 0, k |-> 0,
   log |-> <<>>]

InFlight(s) == pass[s].pc \in {"fetching", "merge", "persist", "rewrite", "fixPaths"}
Quiet == running = 0 /\ \A s \in Slots : ~InFlight(s)

Init ==
  /\ fs = [f \in UserFiles |-> UserContent]
  /\ disk = EmptyConfig
  /\ pass = [s \in Slots |-> IdlePass]
  /\ running = 0
  /\ watch = NoWatch
  /\ design \in [nameOf : Designs, rev : {0}]
  /\ runs = 0
  /\ userOps = 0

\* process.exit(1): every pass of the process stops where it is.
ProcessExit(passes, s, events) ==
  [t \in Slots |->
     IF t = s THEN [passes[s] EXCEPT !.pc = "exited", !.log = @ \o events]
     ELSE IF passes[t].pc = "fetching" THEN [passes[t] EXCEPT !.pc = "exited"]
     ELSE passes[t]]

\* ------------------------------------------------------------ environment
\* The developer edits the tree only between passes, and while a pass may
\* still follow.  Directory b is used once a holds a file of that name (a and
\* b are interchangeable to the program, which compares whole paths and base
\* names only).  The records of the finished passes are dropped.
MayEdit(f, d) ==
  /\ Quiet /\ userOps < MaxUserOps
  /\ runs < MaxRuns \/ (watch.on /\ watch.left > 0)
  /\ Exists(fs, f)
  /\ ~Exists(fs, <<SrcDir, d, PathBasename(f)>>)
  /\ d = "b" => Exists(fs, <<SrcDir, "a", PathBasename(f)>>)

\* The developer moves a file into another directory.
UserMove(f, d) ==
  /\ MayEdit(f, d)
  /\ fs' = [g \in (DOMAIN fs \ {f}) \cup {<<SrcDir, d, PathBasename(f)>>} |->
              IF g = <<SrcDir, d, PathBasename(f)>> THEN fs[f] ELSE fs[g]]
  /\ userOps' = userOps + 1
  /\ pass' = [s \in Slots |-> IdlePass]
  /\ UNCHANGED <<disk, running, watch, design, runs>>

\* The developer copies a file into another directory.
UserCopy(f, d) ==
  /\ MayEdit(f, d) /\ d # NodeModules
  /\ fs' = [g \in DOMAIN fs \cup {<<SrcDir, d, PathBasename(f)>>} |->
              IF g = <<SrcDir, d, PathBasename(f)>> THEN fs[f] ELSE fs[g]]
  /\ userOps' = userOps + 1
  /\ pass' = [s \in Slots |-> IdlePass]
  /\ UNCHANGED <<disk, running, watch, design, runs>>

\* A cross-reference to an external package instead of a file of the tree.
ExternalModule == <<"@plasmicpkgs", "Btn">>

\* The developer edits plasmic.json and points the cross-reference of a
\* tracked component to an external package.
UserSetExternal(k) ==
  /\ Quiet /\ userOps < MaxUserOps
  /\ runs < MaxRuns \/ (watch.on /\ watch.left > 0)
  /\ k \in DOMAIN disk.components
  /\ IsLocalModulePath(disk.components[k].modulePath)
  /\ disk' = [disk EXCEPT !.components[k].modulePath = ExternalModule]
  /\ userOps' = userOps + 1
  /\ pass' = [s \in Slots |-> IdlePass]
  /\ UNCHANGED <<fs, running, watch, design, runs>>

\* ------------------------------------------------------------ sync pass
\* Variant: with no project named or tracked, a default project is synced.
BeginSyncDefaultProject(p0, opts, revision) ==
  LET config == disk
      projectIds == IF Len(ProjectIdsOf(opts, config)) = 0 THEN <<"p2">>
                    ELSE ProjectIdsOf(opts, config)
      p1 == [p0 EXCEPT !.kind = "sync", !.opts = opts, !.config = config,
               !.config0 = config, !.projectIds = projectIds,
               !.components = SelectorList(opts, config),
               !.baseNameToFiles = BuildBaseNameToFiles(fs),
               !.rev = revision, !.i = 0, !.j = 0, !.k = 0, !.log = <<>>]
  IN  IF Len(projectIds) = 0
        THEN [p1 EXCEPT !.pc = "exited", !.baseNameToFiles = GroupByBasename({}),
                !.components = <<>>, !.rev = 0,
                !.log = <<[op |-> "error", key |-> "projects", expected |-> <<>>,
                           candidates |-> {}]>>]
        ELSE [p1 EXCEPT !.pc = "fetching"]

\* syncProjects up to its await (lines 235-271): getContext reads
\* plasmic.json, the selector and the file index are computed, the fetches
\* are issued.
BeginSync(p0, opts, revision) ==
  LET config == disk
      projectIds == ProjectIdsOf(opts, config)
      p1 == [p0 EXCEPT !.kind = "sync", !.opts = opts, !.config = config,
               !.config0 = config, !.projectIds = projectIds,
               !.components = SelectorList(opts, config),
               !.baseNameToFiles = BuildBaseNameToFiles(fs),
               !.rev = revision, !.i = 0, !.j = 0, !.k = 0, !.log = <<>>]
  IN  IF Len(projectIds) = 0
        THEN [p1 EXCEPT !.pc = "exited", !.baseNameToFiles = GroupByBasename({}),
                !.components = <<>>, !.rev = 0,
                !.log = <<[op |-> "error", key |-> "projects", expected |-> <<>>,
                           candidates |-> {}]>>]
        ELSE [p1 EXCEPT !.pc = "fetching"]

\* `plasmic sync`: a new process running one pass.  The designer has
\* published a new revision since the last fetch; the fetch is served at the
\* revision current when it is requested.
RunSync(opts) ==
  /\ Quiet /\ runs < MaxRuns
  /\ pass' = [s \in Slots |->
       IF s = 1 THEN BeginSync(IdlePass, opts, design.rev + 1) ELSE IdlePass]
  /\ design' = [design EXCEPT !.rev = IF pass'[1].pc = "exited" THEN @ ELSE @ + 1]
  /\ watch' = NoWatch
  /\ runs' = runs + 1
  /\ UNCHANGED <<fs, disk, running, userOps>>

\* `plasmic watch` (lines 194-228): a new process that syncs on every update.
RunWatch(opts) ==
  /\ Quiet /\ runs < MaxRuns
  /\ pass' = [s \in Slots |-> IdlePass]
  /\ watch' = IF Len(ProjectIdsOf(opts, disk)) = 0
                THEN NoWatch
                ELSE [on |-> TRUE, opts |-> opts, left |-> MaxWatchPasses]
  /\ runs' = runs + 1
  /\ UNCHANGED <<fs, disk, running, design, userOps>>

\* socket.on("update") (lines 218-224): a new revision was published and
\* syncProjects(opts) is called, while earlier passes may still await their
\* fetch.  The pass takes the first free slot.
WatchUpdate(s) ==
  /\ watch.on /\ watch.left > 0 /\ running = 0
  /\ ~InFlight(s)
  /\ \A t \in Slots : t < s => InFlight(t)
  /\ LET p1 == BeginSync(IdlePass, watch.opts, design.rev + 1)
     IN  IF p1.pc = "exited"
           THEN /\ pass' = ProcessExit([pass EXCEPT ![s] = p1], s, <<>>)
                /\ watch' = NoWatch
                /\ design' = design
           ELSE /\ pass' = [pass EXCEPT ![s] = p1]
                /\ watch' = [watch EXCEPT !.left = @ - 1]
                /\ design' = [design EXCEPT !.rev = @ + 1]
  /\ UNCHANGED <<fs, disk, running, runs, userOps>>

\* Promise.all resolves (lines 269-271): one bundle per requested project id.
FetchResolve(s) ==
  /\ running = 0 /\ pass[s].pc = "fetching"
  /\ pass' = [pass EXCEPT ![s] = [@ EXCEPT !.pc = "merge", !.i = 1, !.j = 1]]
  /\ running' = s
  /\ UNCHANGED <<fs, disk, watch, design, runs, userOps>>

\* Variant: the pass goes on with the bundles that did arrive.
FetchRejectPartial(s) ==
  /\ running = 0 /\ pass[s].pc = "fetching"
  /\ pass' = [pass EXCEPT ![s] = [@ EXCEPT !.pc = "merge", !.i = 1, !.j = 1,
                !.log = Append(@, [op |-> "fetchError"])]]
  /\ running' = s
  /\ UNCHANGED <<fs, disk, watch, design, runs, userOps>>

\* Promise.all rejects: the pass ends with the rejection.
FetchReject(s) ==
  /\ running = 0 /\ pass[s].pc = "fetching"
  /\ pass' = [pass EXCEPT ![s] =
       [@ EXCEPT !.pc = "failed", !.log = Append(@, [op |-> "fetchError"])]]
  /\ UNCHANGED <<fs, disk, running, watch, design, runs, userOps>>

\* `results` (lines 269-271): the bundles the fetches of pass P resolved to,
\* served by the remote at the revision it held then.
Results(P) ==
  [n \in 1..Len(P.projectIds) |->
     ProjectBundle(P.projectIds[n], design.nameOf, P.rev)]

\* The tracked entry created for a component synced for the first time
\* (lines 294-302).
NewCompConfig(bundle, projectId) ==
  [id |-> bundle.id, name |-> bundle.componentName, type |-> "managed",
   projectId |-> projectId,
   renderModuleFilePath |-> bundle.renderModuleFileName,
   modulePath |-> bundle.skeletonModuleFileName,
   cssFilePath |-> bundle.cssFileName]

\* Variant: the render module of a new component is written with force.
WriteNewComponentForce(files, bundle) ==
  LET w0 == [files |-> files, events |-> <<>>]
      w1 == Write(w0, bundle.renderModuleFileName, bundle.renderModule, TRUE, bundle.id)
      w2 == Write(w1, bundle.cssFileName, bundle.cssRules, FALSE, bundle.id)
  IN  Write(w2, bundle.skeletonModuleFileName, bundle.skeletonModule, FALSE, bundle.id)

\* The three create-only writes for a component synced for the first time
\* (lines 303-317).
WriteNewComponent(files, bundle) ==
  LET w0 == [files |-> files, events |-> <<>>]
      w1 == Write(w0, bundle.renderModuleFileName, bundle.renderModule, FALSE, bundle.id)
      w2 == Write(w1, bundle.cssFileName, bundle.cssRules, FALSE, bundle.id)
  IN  Write(w2, bundle.skeletonModuleFileName, bundle.skeletonModule, FALSE, bundle.id)

\* Variant: the imports of the render module are fixed right after it is
\* overwritten, inside the loop.
OverwriteThenFixImports(files, compConfig, bundle) ==
  LET w0 == [files |-> files, events |-> <<>>]
      w1 == Write(w0, compConfig.renderModuleFilePath, bundle.renderModule, TRUE, bundle.id)
      w2 == Write(w1, compConfig.cssFilePath, bundle.cssRules, TRUE, bundle.id)
  IN  CHOOSE out \in
        {[files |-> r.files, events |-> r.events]
           : r \in {FixFileImportStatements(
                      [files |-> w2.files, failed |-> FALSE, events |-> w2.events],
                      compConfig.renderModuleFilePath, bundle.id)}} : TRUE

\* Variant: the scaffold of an existing component is refreshed as well.
OverwriteWithScaffold(files, compConfig, bundle) ==
  LET w0 == [files |-> files, events |-> <<>>]
      w1 == Write(w0, compConfig.renderModuleFilePath, bundle.renderModule, TRUE, bundle.id)
      w2 == Write(w1, compConfig.cssFilePath, bundle.cssRules, TRUE, bundle.id)
  IN  Write(w2, compConfig.modulePath, bundle.skeletonModule, TRUE, bundle.id)

\* The two overwrites for an existing component, at its reconciled paths
\* (lines 323-330).
OverwriteComponent(files, compConfig, bundle) ==
  LET w0 == [files |-> files, events |-> <<>>]
      w1 == Write(w0, compConfig.renderModuleFilePath, bundle.renderModule, TRUE, bundle.id)
  IN  Write(w1, compConfig.cssFilePath, bundle.cssRules, TRUE, bundle.id)

\* Variant: an existing entry takes the project id of the bundle it is synced from.
SyncComponentRetag(files, config, baseNameToFiles, bundle, projectId) ==
  LET idx == KeyByIndex(config.components, "id", bundle.id)
      head == <<[op |-> "sync", key |-> bundle.id, name |-> bundle.componentName,
                 projectId |-> projectId, new |-> idx = 0]>>
  IN  IF idx = 0
        THEN
          LET entry == NewCompConfig(bundle, projectId)
          IN  CHOOSE out \in
                {[exit |-> FALSE, files |-> w.files,
                  config |-> [config EXCEPT !.components = Append(@, entry)],
                  events |-> head \o w.events
                               \o <<[op |-> "push", key |-> bundle.id, entry |-> entry]>>]
                   : w \in {WriteNewComponent(files, bundle)}} : TRUE
      ELSE
        CHOOSE out \in
          {IF r.exit
             THEN [exit |-> TRUE, files |-> files, config |-> config,
                   events |-> head \o r.events]
           ELSE
             CHOOSE o2 \in
               {[exit |-> FALSE, files |-> w.files,
                 config |-> [config EXCEPT !.components[idx] =
                             [r.entry EXCEPT !.projectId = projectId]],
                 events |-> head \o r.events \o w.events]
                  : w \in {OverwriteComponent(files, r.entry, bundle)}} : TRUE
             : r \in {FixComponentPaths(files, config.components[idx], baseNameToFiles)}}
          : TRUE

\* One iteration of the inner loop of syncProjects (lines 276-332) for a
\* bundle the selector lets through: [exit, files, config, events].
SyncComponent(files, config, baseNameToFiles, bundle, projectId) ==
  LET idx == KeyByIndex(config.components, "id", bundle.id)
      head == <<[op |-> "sync", key |-> bundle.id, name |-> bundle.componentName,
                 projectId |-> projectId, new |-> idx = 0]>>
  IN  IF idx = 0
        THEN
          LET entry == NewCompConfig(bundle, projectId)
          IN  CHOOSE out \in
                {[exit |-> FALSE, files |-> w.files,
                  config |-> [config EXCEPT !.components = Append(@, entry)],
                  events |-> head \o w.events
                               \o <<[op |-> "push", key |-> bundle.id, entry |-> entry]>>]
                   : w \in {WriteNewComponent(files, bundle)}} : TRUE
      ELSE
        CHOOSE out \in
          {IF r.exit
             THEN [exit |-> TRUE, files |-> files, config |-> config,
                   events |-> head \o r.events]
           ELSE
             CHOOSE o2 \in
               {[exit |-> FALSE, files |-> w.files,
                 config |-> [config EXCEPT !.components[idx] = r.entry],
                 events |-> head \o r.events \o w.events]
                  : w \in {OverwriteComponent(files, r.entry, bundle)}} : TRUE
             : r \in {FixComponentPaths(files, config.components[idx], baseNameToFiles)}}
          : TRUE

\* Variant: the context file of a new project is written with force.
SyncProjectForceNew(files, config, baseNameToFiles, pc) ==
  LET idx == FindIndex(config.projects, "projectId", pc.projectId)
  IN  IF idx = 0
        THEN
          LET c == [projectId |-> pc.projectId, contextFilePath |-> pc.contextFileName,
                    fontsFilePath |-> pc.fontsFileName,
                    contextTypeName |-> pc.contextTypeName]
              w0 == [files |-> files, events |-> <<>>]
              w1 == Write(w0, pc.contextFileName, pc.contextModule, TRUE, pc.projectId)
              w2 == Write(w1, pc.fontsFileName, pc.fontsModule, FALSE, pc.projectId)
          IN  CHOOSE out \in
                {[exit |-> FALSE, files |-> w.files,
                  config |-> [config EXCEPT !.projects = Append(@, c)],
                  events |-> <<[op |-> "syncProject", key |-> pc.projectId, new |-> TRUE]>>
                               \o w.events
                               \o <<[op |-> "push", key |-> pc.projectId, entry |-> c]>>]
                   : w \in {w2}} : TRUE
      ELSE
        LET fixed == {FixProjectFilePaths(files, config.projects[idx], baseNameToFiles)}
            head == <<[op |-> "syncProject", key |-> pc.projectId, new |-> FALSE]>>
        IN  CHOOSE out \in
              {IF r.exit
                 THEN [exit |-> TRUE, files |-> files, config |-> config,
                       events |-> head \o r.events]
               ELSE
                 LET w0 == [files |-> files, events |-> <<>>]
                     w1 == Write(w0, r.entry.contextFilePath, pc.contextModule,
                                 TRUE, pc.projectId)
                     w2 == Write(w1, r.entry.fontsFilePath, pc.fontsModule, TRUE, pc.projectId)
                 IN  CHOOSE o2 \in
                       {[exit |-> FALSE, files |-> w.files,
                         config |-> [config EXCEPT !.projects[idx] = r.entry],
                         events |-> head \o r.events \o w.events] : w \in {w2}} : TRUE
                 : r \in fixed} : TRUE

\* The project part of the outer loop (lines 333-357).
SyncProject(files, config, baseNameToFiles, pc) ==
  LET idx == FindIndex(config.projects, "projectId", pc.projectId)
  IN  IF idx = 0
        THEN
          LET c == [projectId |-> pc.projectId, contextFilePath |-> pc.contextFileName,
                    fontsFilePath |-> pc.fontsFileName,
                    contextTypeName |-> pc.contextTypeName]
              w0 == [files |-> files, events |-> <<>>]
              w1 == Write(w0, pc.contextFileName, pc.contextModule, FALSE, pc.projectId)
              w2 == Write(w1, pc.fontsFileName, pc.fontsModule, FALSE, pc.projectId)
          IN  CHOOSE out \in
                {[exit |-> FALSE, files |-> w.files,
                  config |-> [config EXCEPT !.projects = Append(@, c)],
                  events |-> <<[op |-> "syncProject", key |-> pc.projectId, new |-> TRUE]>>
                               \o w.events
                               \o <<[op |-> "push", key |-> pc.projectId, entry |-> c]>>]
                   : w \in {w2}} : TRUE
      ELSE
        LET fixed == {FixProjectFilePaths(files, config.projects[idx], baseNameToFiles)}
            head == <<[op |-> "syncProject", key |-> pc.projectId, new |-> FALSE]>>
        IN  CHOOSE out \in
              {IF r.exit
                 THEN [exit |-> TRUE, files |-> files, config |-> config,
                       events |-> head \o r.events]
               ELSE
                 LET w0 == [files |-> files, events |-> <<>>]
                     w1 == Write(w0, r.entry.contextFilePath, pc.contextModule,
                                 TRUE, pc.projectId)
                     w2 == Write(w1, r.entry.fontsFilePath, pc.fontsModule, TRUE, pc.projectId)
                 IN  CHOOSE o2 \in
                       {[exit |-> FALSE, files |-> w.files,
                         config |-> [config EXCEPT !.projects[idx] = r.entry],
                         events |-> head \o r.events \o w.events] : w \in {w2}} : TRUE
                 : r \in fixed} : TRUE

\* The body of `for (const bundle of projectBundle.results)` for bundle j of
\* project i.
MergeComponent(s) ==
  /\ running = s /\ pass[s].pc = "merge"
  /\ pass[s].j <= Len(Results(pass[s])[pass[s].i].results)
  /\ \E P \in {pass[s]} :
     \E bundle \in {Results(P)[P.i].results[P.j]} :
     \E r \in {SyncComponent(fs, P.config, P.baseNameToFiles, bundle, P.projectIds[P.i])} :
         IF ~ShouldSyncComponents(P.components, P.opts, bundle.id, bundle.componentName)
           THEN /\ pass' = [pass EXCEPT ![s] = [@ EXCEPT !.j = @ + 1,
                     !.log = Append(@, [op |-> "skip", key |-> bundle.id,
                                        name |-> bundle.componentName])]]
                /\ UNCHANGED <<fs, running, watch>>
         ELSE IF r.exit
           THEN /\ pass' = ProcessExit(pass, s, r.events)
                /\ running' = 0
                /\ watch' = NoWatch
                /\ UNCHANGED fs
         ELSE /\ pass' = [pass EXCEPT ![s] = [@ EXCEPT !.j = @ + 1,
                   !.config = r.config, !.log = @ \o r.events]]
              /\ fs' = r.files
              /\ UNCHANGED <<running, watch>>
  /\ UNCHANGED <<disk, design, runs, userOps>>

\* The rest of the outer loop body for project i, after its bundles.
MergeProject(s) ==
  /\ running = s /\ pass[s].pc = "merge"
  /\ pass[s].j > Len(Results(pass[s])[pass[s].i].results)
  /\ \E P \in {pass[s]} :
     \E r \in {SyncProject(fs, P.config, P.baseNameToFiles, Results(P)[P.i].projectConfig)} :
     LET last == P.i = Len(P.projectIds)
     IN  IF r.exit
           THEN /\ pass' = ProcessExit(pass, s, r.events)
                /\ running' = 0
                /\ watch' = NoWatch
                /\ UNCHANGED fs
         ELSE /\ pass' = [pass EXCEPT ![s] = [@ EXCEPT
                   !.pc = IF last THEN "persist" ELSE "merge",
                   !.i = IF last THEN @ ELSE @ + 1, !.j = 1,
                   !.config = r.config, !.log = @ \o r.events]]
              /\ fs' = r.files
              /\ UNCHANGED <<running, watch>>
  /\ UNCHANGED <<disk, design, runs, userOps>>

\* Variant: the collections built so far are saved when a write fails.
WriteFailsAfterSaving(s) ==
  /\ running = s /\ pass[s].pc = "merge"
  /\ pass' = [pass EXCEPT ![s] =
       [@ EXCEPT !.pc = "failed", !.log = Append(@, [op |-> "ioError"])]]
  /\ disk' = [components |-> pass[s].config.components,
              projects |-> pass[s].config.projects]
  /\ running' = 0
  /\ UNCHANGED <<fs, watch, design, runs, userOps>>

\* The next writeFileContent call of the loop (a component's or a project's
\* first write) throws: the exception leaves syncProjects, whose promise is
\* rejected; nothing after the loop runs.
WriteFails(s) ==
  /\ running = s /\ pass[s].pc = "merge"
  /\ pass' = [pass EXCEPT ![s] =
       [@ EXCEPT !.pc = "failed", !.log = Append(@, [op |-> "ioError"])]]
  /\ running' = 0
  /\ UNCHANGED <<fs, disk, watch, design, runs, userOps>>

\* config-utils.updateConfig: the given collections replace those of
\* plasmic.json.
UpdateConfig(stored, kind, config) ==
  IF kind = "sync"
    THEN [components |-> config.components, projects |-> config.projects]
  ELSE [stored EXCEPT !.components = config.components]

\* Variant: the store is left for later; the pass goes on to the rewriter.
PersistNothing(s) ==
  /\ running = s /\ pass[s].pc = "persist"
  /\ pass' = [pass EXCEPT ![s] = [@ EXCEPT !.pc = "rewrite",
                !.log = Append(@, [op |-> "persist"])]]
  /\ UNCHANGED <<fs, disk, running, watch, design, runs, userOps>>

\* updateConfig(...) of syncProjects (line 361) and of fixImports (line 377).
Persist(s) ==
  /\ running = s /\ pass[s].pc = "persist"
  /\ disk' = UpdateConfig(disk, pass[s].kind, pass[s].config)
  /\ pass' = [pass EXCEPT ![s] = [@ EXCEPT !.pc = "rewrite",
                !.log = Append(@, [op |-> "persist"])]]
  /\ UNCHANGED <<fs, running, watch, design, runs, userOps>>

\* fixAllImportStatements(context) (lines 364 and 378), which ends the pass:
\* a file that cannot be read throws.
RewriteImports(s) ==
  /\ running = s /\ pass[s].pc = "rewrite"
  /\ \E r \in {FixAllImportStatements(fs, pass[s].config)} :
       /\ fs' = r.files
       /\ pass' = [pass EXCEPT ![s] = [@ EXCEPT
              !.pc = IF r.failed THEN "failed" ELSE "done",
              !.log = @ \o <<[op |-> "fixAll"]>> \o r.events]]
  /\ running' = 0
  /\ UNCHANGED <<disk, watch, design, runs, userOps>>

\* ------------------------------------------------------------ fix-imports
\* `plasmic fix-imports` (lines 368-372): a new process.
RunFixImports ==
  /\ Quiet /\ runs < MaxRuns
  /\ pass' = [s \in Slots |->
       IF s = 1
         THEN [IdlePass EXCEPT !.kind = "fix", !.config = disk, !.config0 = disk,
                 !.baseNameToFiles = BuildBaseNameToFiles(fs),
                 !.pc = IF Len(disk.components) = 0 THEN "persist" ELSE "fixPaths",
                 !.k = 1]
       ELSE IdlePass]
  /\ running' = 1
  /\ watch' = NoWatch
  /\ runs' = runs + 1
  /\ UNCHANGED <<fs, disk, design, userOps>>

\* One iteration of the loop of fixImports (lines 373-375).
FixPathsStep(s) ==
  /\ running = s /\ pass[s].pc = "fixPaths"
  /\ \E P \in {pass[s]} :
     \E r \in {FixComponentPaths(fs, P.config.components[P.k], P.baseNameToFiles)} :
     LET last == P.k = Len(P.config.components)
     IN  IF r.exit
           THEN /\ pass' = ProcessExit(pass, s, r.events)
                /\ running' = 0
         ELSE /\ pass' = [pass EXCEPT ![s] = [@ EXCEPT
                   !.pc = IF last THEN "persist" ELSE "fixPaths",
                   !.k = IF last THEN 1 ELSE @ + 1,
                   !.config = [@ EXCEPT !.components[P.k] = r.entry],
                   !.log = @ \o r.events]]
              /\ UNCHANGED running
  /\ UNCHANGED <<fs, disk, watch, design, runs, userOps>>

\* ------------------------------------------------------------------ spec
Next ==
  \/ \E f \in AbsPaths, d \in Dirs : UserMove(f, d)
  \/ \E f \in AbsPaths, d \in Dirs : UserCopy(f, d)
  \/ \E k \in DOMAIN disk.components : UserSetExternal(k)
  \/ \E opts \in Opts : RunSync(opts)
  \/ \E opts \in WatchOpts : RunWatch(opts)
  \/ \E s \in Slots : WatchUpdate(s)
  \/ \E s \in Slots : FetchResolve(s)
  \/ \E s \in Slots : FetchReject(s)
  \/ \E s \in Slots : MergeComponent(s)
  \/ \E s \in Slots : MergeProject(s)
  \/ \E s \in Slots : WriteFails(s)
  \/ \E s \in Slots : Persist(s)
  \/ \E s \in Slots : RewriteImports(s)
  \/ RunFixImports
  \/ \E s \in Slots : FixPathsStep(s)

Spec == Init /\ [][Next]_vars

\* The tree and the store left by `plasmic sync --projects p1 p2
\* --components c1`, the developer moving the render module and the style
\* file of c1 into a/, and `plasmic sync --include-new`, for the design in
\* which both components are named Btn: c1 is tracked in a/, c2 in the source
\* root, and no two entries share a render-module path or a style path.  One
\* more process may run and the developer's edits are counted from here.
TwoTrackedFiles ==
  [f \in {<<SrcDir, ".", RenderFile("Btn")>>, <<SrcDir, ".", CssFile("Btn")>>,
          <<SrcDir, ".", SkelFile("Btn")>>,
          <<SrcDir, ".", ContextFile("p1")>>, <<SrcDir, ".", ContextFile("p2")>>,
          <<SrcDir, ".", FontsFile("p1")>>, <<SrcDir, ".", FontsFile("p2")>>,
          <<SrcDir, "a", RenderFile("Btn")>>, <<SrcDir, "a", CssFile("Btn")>>,
          <<SrcDir, "a", SkelFile("Btn")>>} |->
     IF f = <<SrcDir, "a", SkelFile("Btn")>> THEN UserContent
     ELSE IF f[3] = SkelFile("Btn")
       THEN [kind |-> "skeleton", of |-> "c1", rev |-> 1, fixed |-> TRUE]
     ELSE IF f[3] = RenderFile("Btn")
       THEN [kind |-> "render", of |-> IF f[2] = "a" THEN "c1" ELSE "c2",
             rev |-> 2, fixed |-> TRUE]
     ELSE IF f[3] = CssFile("Btn")
       THEN [kind |-> "css", of |-> IF f[2] = "a" THEN "c1" ELSE "c2",
             rev |-> 2, fixed |-> TRUE]
     ELSE IF f[3] = ContextFile("p1")
       THEN [kind |-> "context", of |-> "p1", rev |-> 2, fixed |-> FALSE]
     ELSE IF f[3] = ContextFile("p2")
       THEN [kind |-> "context", of |-> "p2", rev |-> 1, fixed |-> FALSE]
     ELSE IF f[3] = FontsFile("p1")
       THEN [kind |-> "fonts", of |-> "p1", rev |-> 2, fixed |-> FALSE]
     ELSE [kind |-> "fonts", of |-> "p2", rev |-> 1, fixed |-> FALSE]]

TwoTrackedConfig ==
  [components |->
     <<[id |-> "c1", name |-> "Btn", type |-> "managed", projectId |-> "p1",
        renderModuleFilePath |-> <<"a", RenderFile("Btn")>>,
        cssFilePath |-> <<"a", CssFile("Btn")>>,
        modulePath |-> <<".", SkelFile("Btn")>>],
       [id |-> "c2", name |-> "Btn", type |-> "managed", projectId |-> "p1",
        renderModuleFilePath |-> <<".", RenderFile("Btn")>>,
        cssFilePath |-> <<".", CssFile("Btn")>>,
        modulePath |-> <<".", SkelFile("Btn")>>]>>,
   projects |->
     <<[projectId |-> "p1", contextTypeName |-> "PlasmicContext",
        contextFilePath |-> <<".", ContextFile("p1")>>,
        fontsFilePath |-> <<".", FontsFile("p1")>>],
       [projectId |-> "p2", contextTypeName |-> "PlasmicContext",
        contextFilePath |-> <<".", ContextFile("p2")>>,
        fontsFilePath |-> <<".", FontsFile("p2")>>]>>]

InitTwoTracked ==
  /\ fs = TwoTrackedFiles
  /\ disk = TwoTrackedConfig
  /\ pass = [s \in Slots |-> IdlePass]
  /\ running = 0
  /\ watch = NoWatch
  /\ design = [nameOf |-> [c \in CompIds |-> "Btn"], rev |-> 2]
  /\ runs = MaxRuns - 1
  /\ userOps = 0

SpecTwoTracked == InitTwoTracked /\ [][Next]_vars

\* =========================================================== properties
\* What a pass has done so far, in order.
Log(s) == pass[s].log
Pos(s) == 1..Len(pass[s].log)
IsSync(s) == pass[s].kind = "sync"

\* The events of merging (reconciliation, artifact writes, tracking) and of
\* import rewriting.
MergeOps == {"sync", "syncProject", "skip", "fixPaths", "find", "warn", "set",
             "write", "push"}
RewriteOps == {"fixAll", "rewrite", "readError"}
HasOp(s, ops) == \E n \in Pos(s) : Log(s)[n].op \in ops

\* C1: in every sync pass, every reconciliation and every artifact write of
\* the pass comes before its first import-rewriting step; none follows one.
C1_WritesBeforeRewriting ==
  \A s \in Slots : IsSync(s) =>
    /\ \A m \in Pos(s), n \in Pos(s) :
         (m < n /\ Log(s)[m].op \in RewriteOps) => Log(s)[n].op \notin MergeOps
    /\ pass[s].pc \in {"fetching", "merge", "persist"} => ~HasOp(s, RewriteOps)

\* A finished pass that synced a new and an existing component, moved a
\* tracked path, and rewrote imports.
C1_Witness ==
  \E s \in Slots :
    /\ IsSync(s) /\ pass[s].pc = "done"
    /\ \E n \in Pos(s) : Log(s)[n].op = "sync" /\ Log(s)[n].new
    /\ \E n \in Pos(s) : Log(s)[n].op = "sync" /\ ~Log(s)[n].new
    /\ HasOp(s, {"set"}) /\ HasOp(s, {"rewrite"})

\* A findSrcDirPath call on a path that was missing while the file index held
\* two or more files of its name.
Ambiguous(e) ==
  e.op = "find" /\ ~e.existed /\ Cardinality(e.candidates) >= 2

\* C2: when reconciliation looks up a tracked path that is missing while the
\* file index holds two or more files of its name, the pass ends there with
\* an error naming all of them: nothing is written or rewritten after the
\* lookup, the pass is not done, and no pass of the process goes on.
C2_AmbiguityIsFatal ==
  \A s \in Slots : \A n \in Pos(s) :
    Ambiguous(Log(s)[n]) =>
      /\ pass[s].pc = "exited"
      /\ n + 1 = Len(Log(s))
      /\ Log(s)[n + 1].op = "error"
      /\ Log(s)[n + 1].candidates = Log(s)[n].candidates
      /\ running = 0 /\ ~watch.on
      /\ \A t \in Slots : ~InFlight(t)

\* A sync pass that met an ambiguous path of a tracked component.
C2_Witness ==
  \E s \in Slots :
    /\ IsSync(s) /\ pass[s].pc = "exited"
    /\ \E n \in Pos(s) : Ambiguous(Log(s)[n]) /\ Log(s)[n].key \in CompIds

\* The paths of the tables the Import Rewriter is given that reconciliation
\* covers: render module, style and local cross-reference of every
\* component, context and fonts file of every project.
TrackedPaths(config) ==
  UNION {{c.renderModuleFilePath, c.cssFilePath} \cup
         (IF IsLocalModulePath(c.modulePath) THEN {c.modulePath} ELSE {})
           : c \in Range(config.components)}
  \cup UNION {{q.contextFilePath, q.fontsFilePath} : q \in Range(config.projects)}

\* Reconciliation with the pass's file index leaves the path as it is.
Reconciled(s, path) ==
  \E r \in {FindSrcDirPath(fs, path, pass[s].baseNameToFiles)} :
    ~r.exit /\ r.path = path

\* C3: whenever the Import Rewriter starts, at the end of a sync pass or of a
\* fix-imports run, no tracked path of the component table or of the project
\* table it is given is a pre-reconciliation value: each is a path that
\* reconciliation leaves unchanged.
C3_RewriterGivenReconciled ==
  \A s \in Slots : pass[s].pc = "rewrite" =>
    \A path \in TrackedPaths(pass[s].config) : Reconciled(s, path)

\* A lookup, in the existing-component block of a sync pass, of a render
\* module or style path that was missing and had exactly one candidate.
MovedFind(e) ==
  /\ e.op = "find" /\ e.key \in CompIds
  /\ e.field \in {"renderModuleFilePath", "cssFilePath"}
  /\ ~e.existed /\ Cardinality(e.candidates) = 1

\* Event m of pass s force-overwrites, with the content fetched by the pass,
\* the file of the component at the path the lookup e resolved.
OverwritesResolved(s, m, e) ==
  /\ Log(s)[m].op = "write" /\ Log(s)[m].key = e.key
  /\ Log(s)[m].path = e.found /\ Log(s)[m].force
  /\ Log(s)[m].content.rev = pass[s].rev
  /\ Log(s)[m].content.kind = (IF e.field = "cssFilePath" THEN "css" ELSE "render")

\* Event m of pass s creates a file at the given path.
CreatesAt(s, m, path) ==
  /\ Log(s)[m].op = "write" /\ Log(s)[m].path = path
  /\ ~Log(s)[m].existed /\ Log(s)[m].changed

\* The block of the component that made lookup n ended in the fatal error.
BlockAborted(s, n) ==
  /\ pass[s].pc = "exited" /\ Log(s)[Len(Log(s))].op = "error"
  /\ \A m \in Pos(s) : m > n => Log(s)[m].op # "sync"

\* C4 as stated: for an existing tracked component whose render-module or
\* style path is missing with exactly one candidate, the entry is set to the
\* resolved path, then fresh content is force-written there, and no file is
\* created at the old declared path during the pass.
C4_Original ==
  \A s \in Slots : IsSync(s) => \A n \in Pos(s) :
    MovedFind(Log(s)[n]) =>
      /\ \E k \in Pos(s), m \in Pos(s) :
           /\ n < k /\ k < m
           /\ Log(s)[k].op = "set" /\ Log(s)[k].key = Log(s)[n].key
           /\ Log(s)[k].field = Log(s)[n].field /\ Log(s)[k].to = Log(s)[n].found
           /\ OverwritesResolved(s, m, Log(s)[n])
      /\ \A m \in Pos(s) : ~CreatesAt(s, m, Log(s)[n].expected)

\* C4, amended: the entry is set to the resolved path right after the lookup;
\* unless an ambiguous path of the same entry ends the pass, fresh content is
\* then force-written at the resolved path; no write for this component
\* creates a file at the old declared path, and a file created there during
\* the pass is a create-only write for another, newly tracked component.
C4_OverwriteAtResolvedPath ==
  \A s \in Slots : IsSync(s) => \A n \in Pos(s) :
    MovedFind(Log(s)[n]) =>
      /\ n + 2 <= Len(Log(s))
      /\ Log(s)[n + 2].op = "set" /\ Log(s)[n + 2].key = Log(s)[n].key
      /\ Log(s)[n + 2].field = Log(s)[n].field
      /\ Log(s)[n + 2].to = Log(s)[n].found
      /\ ~BlockAborted(s, n) =>
           \E m \in Pos(s) : m > n + 2 /\ OverwritesResolved(s, m, Log(s)[n])
      /\ \A m \in Pos(s) : CreatesAt(s, m, Log(s)[n].expected) =>
           /\ Log(s)[m].key # Log(s)[n].key
           /\ ~Log(s)[m].force
           /\ Log(s)[m].key \notin {c.id : c \in Range(pass[s].config0.components)}

\* A finished sync pass that found a moved render module or style file and
\* overwrote it where it was found.
C4_Witness ==
  \E s \in Slots : IsSync(s) /\ pass[s].pc = "done" /\
    \E n \in Pos(s), m \in Pos(s) :
      /\ MovedFind(Log(s)[n]) /\ m > n
      /\ OverwritesResolved(s, m, Log(s)[n])
      /\ Exists(fs, PathJoin(SrcDir, Log(s)[n].found))
      /\ ~Exists(fs, PathJoin(SrcDir, Log(s)[n].expected))

\* The ids tracked in plasmic.json when pass s read it.
TrackedAtStart(s) == {c.id : c \in Range(pass[s].config0.components)}

\* The decisions of the selector recorded by pass s: "sync" for a component
\* let through, "skip" for one passed over.
Decisions(s) == {n \in Pos(s) : Log(s)[n].op \in {"sync", "skip"}}

Collections(s) ==
  [components |-> pass[s].config.components, projects |-> pass[s].config.projects]

\* The import rewriter of pass s threw on a file it could not read.
RewriterFailed(s) == pass[s].pc = "failed" /\ HasOp(s, {"readError"})

\* C6 as stated: a sync pass persists the tracked collections only after
\* import rewriting has run, so a failure during import rewriting leaves the
\* configuration store as it was before the pass.
C6_Original ==
  \A s \in Slots : IsSync(s) =>
    /\ \A n \in Pos(s) : Log(s)[n].op = "persist" =>
         \E m \in Pos(s) : m < n /\ Log(s)[m].op = "fixAll"
    /\ RewriterFailed(s) => disk = pass[s].config0

\* C6, amended: a sync pass goes Fetching, Merging, Writing/Reconciling,
\* Persisting, RewritingImports, Done: the collections are persisted once,
\* after the last write or reconciliation and before import rewriting starts,
\* so the store already holds them when the rewriter runs, fails or not.
C6_PersistBeforeRewriting ==
  \A s \in Slots : IsSync(s) =>
    /\ \A n \in Pos(s) : Log(s)[n].op \in RewriteOps =>
         \E m \in Pos(s) : m < n /\ Log(s)[m].op = "persist"
    /\ \A m \in Pos(s), n \in Pos(s) :
         Log(s)[m].op = "persist" /\ m < n => Log(s)[n].op \in RewriteOps
    /\ pass[s].pc \in {"fetching", "merge", "persist"} => ~HasOp(s, {"persist"})
    /\ pass[s].pc = "rewrite" =>
         /\ Log(s)[Len(Log(s))].op = "persist"
         /\ disk = Collections(s)
    /\ pass[s].pc = "done" \/ RewriterFailed(s) =>
         HasOp(s, {"persist"}) /\ HasOp(s, {"fixAll"})

\* A sync pass whose import rewriter failed after the store was changed.
C6_Witness ==
  \E s \in Slots :
    /\ IsSync(s) /\ RewriterFailed(s)
    /\ disk = Collections(s) /\ disk # pass[s].config0

\* Event m of pass s is a create-only call of the Writer for component e.key
\* with the given content at the given path hint.
CreateOnly(s, m, e, path, content) ==
  /\ Log(s)[m].op = "write" /\ Log(s)[m].key = e.key /\ ~Log(s)[m].force
  /\ Log(s)[m].path = path /\ Log(s)[m].content = content

\* The component of selector decision n had a tracked entry: one read from
\* plasmic.json, or one appended earlier in the pass.
HadEntry(s, n) ==
  \/ Log(s)[n].key \in TrackedAtStart(s)
  \/ \E m \in Pos(s) : m < n /\ Log(s)[m].op = "push" /\ Log(s)[m].key = Log(s)[n].key

\* C7: for every selected component of a bundle whose id has no tracked
\* entry, the Writer is called exactly three times, each with force=false,
\* for the render module, the style and the scaffold at the bundle's path
\* hints, and exactly one entry with that id, the bundle's name, the project
\* id and the three path hints is appended to the tracked components.
C7_NewComponent ==
  \A s \in Slots : IsSync(s) => \A n \in Pos(s) :
    Log(s)[n].op = "sync" =>
      /\ Log(s)[n].new <=> ~HadEntry(s, n)
      /\ Log(s)[n].new =>
           \E b \in {ComponentBundle(Log(s)[n].key, Log(s)[n].name, pass[s].rev)} :
             /\ n + 4 <= Len(Log(s))
             /\ CreateOnly(s, n + 1, Log(s)[n], b.renderModuleFileName, b.renderModule)
             /\ CreateOnly(s, n + 2, Log(s)[n], b.cssFileName, b.cssRules)
             /\ CreateOnly(s, n + 3, Log(s)[n], b.skeletonModuleFileName, b.skeletonModule)
             /\ Log(s)[n + 4].op = "push"
             /\ Log(s)[n + 4].entry =
                  [id |-> b.id, name |-> b.componentName, type |-> "managed",
                   projectId |-> Log(s)[n].projectId,
                   renderModuleFilePath |-> b.renderModuleFileName,
                   modulePath |-> b.skeletonModuleFileName,
                   cssFilePath |-> b.cssFileName]
             /\ Cardinality({k \in 1..Len(pass[s].config.components) :
                              pass[s].config.components[k].id = b.id}) = 1
             /\ \E k \in 1..Len(pass[s].config.components) :
                  /\ k > Len(pass[s].config0.components)
                  /\ pass[s].config.components[k].id = b.id
                  /\ pass[s].config.components[k].name = b.componentName
                  /\ pass[s].config.components[k].projectId = Log(s)[n].projectId

\* A finished sync pass that tracked a component for the first time, where
\* one create-only write made a file and another found one in place.
C7_Witness ==
  \E s \in Slots : IsSync(s) /\ pass[s].pc = "done" /\
    \E n \in Pos(s) :
      /\ Log(s)[n].op = "sync" /\ Log(s)[n].new
      /\ \E m \in (n + 1)..(n + 3) : Log(s)[m].changed
      /\ \E m \in (n + 1)..(n + 3) : Log(s)[m].existed /\ ~Log(s)[m].changed

\* The Writer calls of pass s that were given scaffold content.
ScaffoldWrites(s) ==
  {m \in Pos(s) : Log(s)[m].op = "write" /\ Log(s)[m].content.kind = "skeleton"}

\* The scaffold content is given to the Writer only create-only, and only in
\* the block that creates the tracked entry of its component.
ScaffoldOnlyOnCreation(s) ==
  \A m \in ScaffoldWrites(s) :
    /\ ~Log(s)[m].force
    /\ Log(s)[m].existed => ~Log(s)[m].changed
    /\ Log(s)[m].key \notin TrackedAtStart(s)
    /\ m > 3 /\ Log(s)[m - 3].op = "sync" /\ Log(s)[m - 3].new
    /\ Log(s)[m - 3].key = Log(s)[m].key

\* The entries of pass s for the components that plasmic.json tracked when
\* the pass began.
AlreadyTracked(s) ==
  {c \in Range(pass[s].config.components) : c.id \in TrackedAtStart(s)}

\* C8 as stated: once a component is tracked, no later sync pass writes the
\* scaffold content, which is given to the Writer only create-only in the
\* pass creating the entry, and the file at the component's cross-reference
\* path is never rewritten by a later sync.
C8_Original ==
  \A s \in Slots : IsSync(s) =>
    /\ ScaffoldOnlyOnCreation(s)
    /\ \A c \in AlreadyTracked(s), n \in Pos(s) :
         ~(Log(s)[n].op = "rewrite" /\ Log(s)[n].path = c.modulePath)

\* C8, amended: the scaffold content is given to the Writer only create-only
\* and only in the block creating the tracked entry, a Writer call of the
\* sync loop never replaces an existing file with scaffold content, and for
\* a component already tracked the pass never force-writes bundle content at
\* its cross-reference path; the Import Rewriter does rewrite that file.
C8_ScaffoldCreateOnly ==
  \A s \in Slots : IsSync(s) =>
    /\ ScaffoldOnlyOnCreation(s)
    /\ \A c \in AlreadyTracked(s), n \in Pos(s) :
         (Log(s)[n].op = "write" /\ Log(s)[n].path = c.modulePath) =>
           /\ ~Log(s)[n].force
           /\ Log(s)[n].existed => ~Log(s)[n].changed
    /\ pass[s].pc = "done" =>
         \A c \in Range(pass[s].config.components) :
           IsLocalModulePath(c.modulePath) =>
             \E n \in Pos(s) : Log(s)[n].op = "rewrite" /\ Log(s)[n].path = c.modulePath

\* A finished sync pass that overwrote the generated files of a component it
\* already tracked, whose scaffold file it left to the Import Rewriter.
C8_Witness ==
  \E s \in Slots : IsSync(s) /\ pass[s].pc = "done" /\
    \E c \in AlreadyTracked(s) :
      /\ \E n \in Pos(s) : Log(s)[n].op = "sync" /\ Log(s)[n].key = c.id /\ ~Log(s)[n].new
      /\ \E n \in Pos(s) : Log(s)[n].op = "rewrite" /\ Log(s)[n].path = c.modulePath
      /\ Exists(fs, PathJoin(SrcDir, c.modulePath))
      /\ fs[PathJoin(SrcDir, c.modulePath)].rev < pass[s].rev

\* The lookups of pass s that returned.
Returned(s) == {n \in Pos(s) : Log(s)[n].op = "find" /\ ~Log(s)[n].exit}

\* Lookup n is the last one pass s made for that field of that entry.
LastLookup(s, n) ==
  \A m \in Returned(s) :
    (m > n /\ Log(s)[m].key = Log(s)[n].key) => Log(s)[m].field # Log(s)[n].field

\* The tracked entries of pass s, components and projects, by key.
EntryOf(s, key) ==
  IF key \in CompIds
    THEN {c \in Range(pass[s].config.components) : c.id = key}
  ELSE {q \in Range(pass[s].config.projects) : q.projectId = key}

\* C9: after reconciliation of a tracked entry has run, each of its
\* reconciled paths either refers to a file that exists under the source
\* root, or equals its value before reconciliation; the entry holds that
\* path.
C9_ReconciledPathExistsOrUnchanged ==
  \A s \in Slots : \A n \in Returned(s) :
    /\ \/ Log(s)[n].found = Log(s)[n].expected
       \/ /\ Log(s)[n].found \in RelPaths
          /\ Log(s)[n].foundExists
          /\ Exists(fs, PathJoin(SrcDir, Log(s)[n].found))
    /\ (LastLookup(s, n) /\ pass[s].pc # "exited") =>
         \A e \in EntryOf(s, Log(s)[n].key) : e[Log(s)[n].field] = Log(s)[n].found

\* A pass that resolved the moved file of a tracked project and kept another
\* path of the entry as it was.
C9_Witness ==
  \E s \in Slots : pass[s].pc \in {"persist", "rewrite", "done"} /\
    \E n \in Returned(s), m \in Returned(s) :
      /\ Log(s)[n].key \in ProjIds /\ Log(s)[m].key = Log(s)[n].key
      /\ ~Log(s)[n].existed /\ Log(s)[n].found # Log(s)[n].expected
      /\ Log(s)[n].foundExists
      /\ Log(s)[m].found = Log(s)[m].expected

\* No two entries of the list share an id.
UniqueIds(list) ==
  \A m \in 1..Len(list), n \in 1..Len(list) : list[m].id = list[n].id => m = n

\* C10: starting from a tracked set with unique ids, after any sequence of
\* sync passes with any bundles, no two entries of the tracked components
\* share an id, in memory or in the configuration store.
C10_UniqueIds ==
  /\ UniqueIds(disk.components)
  /\ \A s \in Slots : UniqueIds(pass[s].config.components)

\* A finished sync pass that met the same component id in the bundles of two
\* projects, the first time as a new component.
C10_Witness ==
  \E s \in Slots : IsSync(s) /\ pass[s].pc = "done" /\
    /\ \E m \in Pos(s), n \in Pos(s) :
         /\ m < n /\ Log(s)[m].op = "sync" /\ Log(s)[n].op = "sync"
         /\ Log(s)[m].key = Log(s)[n].key
         /\ Log(s)[m].new /\ ~Log(s)[n].new
         /\ Log(s)[m].projectId # Log(s)[n].projectId
    /\ disk.components = pass[s].config.components
    /\ Len(disk.components) = 2

\* The lookups made by pass s.
Lookups(s) == {n \in Pos(s) : Log(s)[n].op = "find"}

\* Lookup n of pass s changed nothing: it returned the path it was given, and
\* what the pass did next is neither a warning, nor an assignment, nor the
\* fatal error.
LeftAsIs(s, n) ==
  /\ ~Log(s)[n].exit /\ Log(s)[n].found = Log(s)[n].expected
  /\ n < Len(Log(s)) => Log(s)[n + 1].op \notin {"warn", "set", "error"}
  /\ (LastLookup(s, n) /\ pass[s].pc # "exited") =>
       \A e \in EntryOf(s, Log(s)[n].key) : e[Log(s)[n].field] = Log(s)[n].expected

\* C11: for a tracked path that does not exist, when the file index holds
\* exactly one file of its bare name, findSrcDirPath returns that file's path
\* relative to the source root, and the caller logs a moved-file warning and
\* stores that path in the tracked entry.
C11_UniqueCandidateIsTaken ==
  \A s \in Slots : \A n \in Lookups(s) :
    (~Log(s)[n].existed /\ Cardinality(Log(s)[n].candidates) = 1) =>
      /\ ~Log(s)[n].exit
      /\ \A f \in Log(s)[n].candidates :
           /\ f[1] = SrcDir
           /\ Log(s)[n].found = SubSeq(f, 2, Len(f))
      /\ n + 2 <= Len(Log(s))
      /\ Log(s)[n + 1].op = "warn"
      /\ Log(s)[n + 1].from = Log(s)[n].expected
      /\ Log(s)[n + 1].to = Log(s)[n].found
      /\ Log(s)[n + 2].op = "set"
      /\ Log(s)[n + 2].key = Log(s)[n].key /\ Log(s)[n + 2].field = Log(s)[n].field
      /\ Log(s)[n + 2].to = Log(s)[n].found
      /\ (LastLookup(s, n) /\ pass[s].pc # "exited") =>
           \A e \in EntryOf(s, Log(s)[n].key) : e[Log(s)[n].field] = Log(s)[n].found

\* A fix-imports run that found the moved file of a component and finished.
C11_Witness ==
  \E s \in Slots : pass[s].kind = "fix" /\ pass[s].pc = "done" /\
    \E n \in Lookups(s) :
      /\ ~Log(s)[n].existed /\ Cardinality(Log(s)[n].candidates) = 1
      /\ Log(s)[n].found[1] = "a"
      /\ \E c \in Range(disk.components) :
           c.id = Log(s)[n].key /\ c[Log(s)[n].field] = Log(s)[n].found

\* C12: for a tracked path that does not exist, when the file index holds no
\* file of its bare name, findSrcDirPath returns the original path, the
\* tracked entry is not modified, and the pass continues.
C12_NoCandidateKeepsPath ==
  \A s \in Slots : \A n \in Lookups(s) :
    (~Log(s)[n].existed /\ Log(s)[n].candidates = {}) =>
      /\ LeftAsIs(s, n)
      /\ pass[s].pc = "exited" => n + 1 < Len(Log(s))

\* A sync pass that looked up a path whose file was gone with no file of
\* that name left, went on to write the file anew there, and finished.
C12_Witness ==
  \E s \in Slots : IsSync(s) /\ pass[s].pc = "done" /\
    \E n \in Lookups(s), m \in Pos(s) :
      /\ ~Log(s)[n].existed /\ Log(s)[n].candidates = {}
      /\ m > n /\ CreatesAt(s, m, Log(s)[n].expected)

\* C13: if a file exists at the declared path, findSrcDirPath returns the
\* declared path whatever the file index holds for that name (no file, one
\* or several), no warning is emitted and the entry is not modified.
C13_ExistingPathIsKept ==
  \A s \in Slots : \A n \in Lookups(s) :
    Log(s)[n].existed => LeftAsIs(s, n)

\* A pass that looked up existing paths whose name the index held several
\* times, once, and not at all.
C13_Witness ==
  \E s \in Slots : pass[s].pc = "done" /\
    /\ \E n \in Lookups(s) :
         Log(s)[n].existed /\ Cardinality(Log(s)[n].candidates) >= 2
    /\ \E n \in Lookups(s) :
         Log(s)[n].existed /\ Cardinality(Log(s)[n].candidates) = 1
    /\ \E n \in Lookups(s) :
         Log(s)[n].existed /\ Log(s)[n].candidates = {}

\* Lookup n of pass s was of an unresolvable path: no file at the path, no
\* file of its name in the index.
Unresolvable(s, n) ==
  Log(s)[n].op = "find" /\ ~Log(s)[n].existed /\ Log(s)[n].candidates = {}

\* Pass s logged a warning about the path of lookup n, after it.
WarnedAbout(s, n) ==
  \E m \in Pos(s) :
    /\ m > n /\ Log(s)[m].op = "warn"
    /\ Log(s)[m].key = Log(s)[n].key /\ Log(s)[m].from = Log(s)[n].expected

\* C14 as stated: when a tracked path cannot be found and has no same-name
\* candidate in the file index, the path is left unchanged and a warning is
\* emitted for that path during reconciliation.
C14_Original ==
  \A s \in Slots : \A n \in Pos(s) :
    Unresolvable(s, n) =>
      Log(s)[n].found = Log(s)[n].expected /\ WarnedAbout(s, n)

\* C14, amended: when a tracked path cannot be found and has no same-name
\* candidate in the file index, the path is left unchanged and reconciliation
\* emits nothing about it; a fix-imports run that met one does not finish,
\* since its rewriter fails on a file it cannot read.
C14_UnresolvableIsSilent ==
  \A s \in Slots : \A n \in Pos(s) :
    Unresolvable(s, n) =>
      /\ Log(s)[n].found = Log(s)[n].expected
      /\ ~WarnedAbout(s, n)
      /\ pass[s].kind = "fix" =>
           /\ pass[s].pc # "done"
           /\ pass[s].pc = "failed" => HasOp(s, {"readError"})

\* A fix-imports run that left an unresolvable path as it was, said nothing,
\* and failed later reading the file at that path.
C14_Witness ==
  \E s \in Slots : pass[s].kind = "fix" /\ RewriterFailed(s) /\
    \E n \in Pos(s), m \in Pos(s) :
      /\ Unresolvable(s, n) /\ m > n
      /\ Log(s)[m].op = "readError" /\ Log(s)[m].path = Log(s)[n].expected
      /\ ~HasOp(s, {"warn"})

\* Sync pass s was aborted in the middle of merging: by the fatal error of an
\* ambiguous path, or by a write that threw.
AbortedInMerge(s) ==
  /\ IsSync(s) /\ Len(Log(s)) > 0
  /\ \/ /\ pass[s].pc = "exited" /\ Log(s)[Len(Log(s))].op = "error"
        /\ Log(s)[Len(Log(s))].key \in CompIds \cup ProjIds
     \/ pass[s].pc = "failed" /\ Log(s)[Len(Log(s))].op = "ioError"

\* No other pass of the process shared the configuration store with pass s.
Alone(s) == \A t \in Slots \ {s} : pass[t].kind = "none"

\* Write n is the last call of the Writer of pass s that changed that path.
LastChange(s, n) ==
  /\ Log(s)[n].op = "write" /\ Log(s)[n].changed
  /\ \A m \in Pos(s) :
       (m > n /\ Log(s)[m].op = "write" /\ Log(s)[m].path = Log(s)[n].path)
         => ~Log(s)[m].changed

\* What holds once sync pass s was aborted in merging: it saved nothing and
\* rewrote nothing; unless another pass of the process went on, the store
\* holds what the pass read and every file the pass changed holds what the
\* pass wrote there last.
SkippedTheRest(s) ==
  AbortedInMerge(s) =>
    /\ ~HasOp(s, {"persist"}) /\ ~HasOp(s, RewriteOps)
    /\ Alone(s) =>
         /\ disk = pass[s].config0
         /\ \A n \in Pos(s) : LastChange(s, n) =>
              /\ Exists(fs, PathJoin(SrcDir, Log(s)[n].path))
              /\ fs[PathJoin(SrcDir, Log(s)[n].path)] = Log(s)[n].content

\* The step that aborts pass s in merging.
Aborts(s) ==
  pass[s].pc = "merge" /\ pass'[s].pc \in {"exited", "failed"}

\* C15: when a sync pass is aborted in the middle of merging, the remaining
\* states are skipped: the configuration store is not persisted and keeps its
\* pre-pass content, import rewriting does not run, and the files written
\* earlier in the pass keep the content that was written; the aborting step
\* itself touches neither the store nor any file.
C15_AbortSkipsTheRest ==
  /\ [](\A s \in Slots : SkippedTheRest(s))
  /\ [][\A s \in Slots : Aborts(s) => (disk' = disk /\ fs' = fs)]_vars

\* A sync pass aborted after it had written files and appended entries that
\* the configuration store never received.
C15_Witness ==
  \E s \in Slots :
    /\ AbortedInMerge(s) /\ Alone(s)
    /\ \E n \in Pos(s) : LastChange(s, n)
    /\ Len(pass[s].config.components) > Len(disk.components)
    /\ disk = pass[s].config0

\* Pass s still awaits its bundles: it has done nothing yet.
NothingBeforeFetch(s) ==
  pass[s].pc = "fetching" =>
    Log(s) = <<>> /\ pass[s].config = pass[s].config0

\* The fetch of pass s failed: the pass ended there, and the failure is all
\* it ever did.
NothingAfterFetchError(s) ==
  HasOp(s, {"fetchError"}) =>
    /\ pass[s].pc = "failed"
    /\ Log(s) = <<[op |-> "fetchError"]>>
    /\ pass[s].config = pass[s].config0

\* The step in which the awaited fetches of pass s reject.
FetchFails(s) ==
  pass[s].pc = "fetching" /\ pass'[s].pc = "failed"

\* C16: the bundles of all requested projects are awaited together before
\* any merging; if the fetch of one of them fails the pass ends: no artifact
\* file is written, no tracked entry is created or changed, and the
\* configuration store is not persisted, also for the projects whose fetch
\* succeeded.
C16_FetchFailureWritesNothing ==
  /\ [](\A s \in Slots : NothingBeforeFetch(s) /\ NothingAfterFetchError(s))
  /\ [][\A s \in Slots : FetchFails(s) => (fs' = fs /\ disk' = disk)]_vars

\* A sync pass for two projects, over a tree an earlier pass filled, whose
\* fetch failed.
C16_Witness ==
  \E s \in Slots :
    /\ IsSync(s) /\ pass[s].pc = "failed" /\ HasOp(s, {"fetchError"})
    /\ Len(pass[s].projectIds) = 2
    /\ Len(disk.components) > 0

\* The request of pass record p names no project, and plasmic.json as the
\* pass read it tracks no component to take a project from.
NoProjectKnown(p) ==
  p.kind = "sync" /\ Len(p.opts.projects) = 0 /\ Len(p.config0.components) = 0

RECURSIVE RewriteTargets(_, _)
RewriteTargets(components, k) ==
  IF k > Len(components) THEN <<>>
  ELSE <<[key |-> components[k].id, path |-> components[k].renderModuleFilePath],
         [key |-> components[k].id, path |-> components[k].cssFilePath]>>
       \o (IF IsLocalModulePath(components[k].modulePath)
             THEN <<[key |-> components[k].id, path |-> components[k].modulePath]>>
             ELSE <<>>)
       \o RewriteTargets(components, k + 1)

\* The position in the log of pass s at which its Import Rewriter started,
\* 0 if it has not.
RewriterStart(s) ==
  IF HasOp(s, {"fixAll"}) THEN CHOOSE n \in Pos(s) : Log(s)[n].op = "fixAll" ELSE 0

\* What the Import Rewriter of pass s did, in order.
RewriterSteps(s) ==
  IF RewriterStart(s) = 0 THEN <<>>
  ELSE SubSeq(Log(s), RewriterStart(s) + 1, Len(Log(s)))

\* How many times pass s rewrote the file at the path.
TimesRewritten(s, path) ==
  Cardinality({n \in Pos(s) : Log(s)[n].op = "rewrite" /\ Log(s)[n].path = path})

\* C18 as stated: in a pass that completes, the Import Rewriter is run
\* exactly once on each tracked component's render module and style file,
\* and on its cross-reference file iff local, so that no file is rewritten
\* more than once in the pass.
C18_Original ==
  \A s \in Slots : pass[s].pc = "done" =>
    /\ Len(RewriterSteps(s)) = Len(RewriteTargets(pass[s].config.components, 1))
    /\ \A path \in RelPaths : TimesRewritten(s, path) <= 1

\* C18, amended: the Import Rewriter starts once per pass and goes through
\* the tracked components in order, fixing once per entry its render module,
\* its style file and, iff local, its cross-reference file; it stops at the
\* first file it cannot read; a file that several entries point to is
\* rewritten once for each of them.
C18_OncePerEntry ==
  \A s \in Slots : RewriterStart(s) # 0 =>
    \E steps \in {RewriterSteps(s)} :
    \E targets \in {RewriteTargets(pass[s].config.components, 1)} :
      /\ Cardinality({n \in Pos(s) : Log(s)[n].op = "fixAll"}) = 1
      /\ Len(steps) <= Len(targets)
      /\ \A q \in 1..Len(steps) :
           /\ steps[q].key = targets[q].key /\ steps[q].path = targets[q].path
           /\ steps[q].op = (IF q < Len(steps) THEN "rewrite" ELSE steps[q].op)
           /\ steps[q].op \in {"rewrite", "readError"}
      /\ pass[s].pc = "done" <=>
           /\ Len(steps) = Len(targets)
           /\ \A q \in 1..Len(steps) : steps[q].op = "rewrite"
      /\ pass[s].pc = "failed" <=>
           (Len(steps) > 0 /\ steps[Len(steps)].op = "readError")
      /\ \A path \in RelPaths :
           TimesRewritten(s, path) <=
             Cardinality({q \in 1..Len(targets) : targets[q].path = path})

\* A finished pass whose rewriter fixed one file twice, for two tracked
\* components that both point to it.
C18_Witness ==
  \E s \in Slots : pass[s].pc = "done" /\
    \E c \in Range(pass[s].config.components), d \in Range(pass[s].config.components) :
      /\ c.id # d.id /\ c.renderModuleFilePath = d.renderModuleFilePath
      /\ TimesRewritten(s, c.renderModuleFilePath) = 2
      /\ fs[PathJoin(SrcDir, c.renderModuleFilePath)].fixed

\* The project steps of pass s.
ProjectSteps(s) == {n \in Pos(s) : Log(s)[n].op = "syncProject"}

\* The last event of the block that starts at n: the loop body logs nothing
\* else before its next step, the save, or a failure.
BlockEnd(s, n) ==
  CHOOSE e \in n..Len(Log(s)) :
    /\ \A m \in (n + 1)..e :
         Log(s)[m].op \notin {"sync", "skip", "syncProject", "persist", "ioError"}
    /\ e < Len(Log(s)) =>
         Log(s)[e + 1].op \in {"sync", "skip", "syncProject", "persist", "ioError"}

\* The path the last lookup of that field in the block n..e resolved.
ResolvedIn(s, n, e, field) ==
  {Log(s)[m].found : m \in {m \in n..e :
      /\ Log(s)[m].op = "find" /\ Log(s)[m].field = field
      /\ \A l \in (m + 1)..e : Log(s)[l].op = "find" => Log(s)[l].field # field}}

\* Event m of pass s is a call of the Writer for project key.
ProjectWrite(s, m, key, path, content, force) ==
  /\ Log(s)[m].op = "write" /\ Log(s)[m].key = key
  /\ Log(s)[m].path = path /\ Log(s)[m].content = content
  /\ Log(s)[m].force = force

\* C19: for each processed project bundle, if no tracked project has its
\* projectId, the context and fonts files are written create-only at the
\* bundle's path hints and one project entry is appended; otherwise the
\* tracked project's context and fonts paths are reconciled first and then
\* both files are force-overwritten at the reconciled paths (unless an
\* ambiguous path ended the pass); nothing else is written for a project.
C19_ProjectNewOrExisting ==
  \A s \in Slots : IsSync(s) => \A n \in ProjectSteps(s) :
    \E key \in {Log(s)[n].key} : \E e \in {BlockEnd(s, n)} :
    \E pc \in {ProjectBundle(key, design.nameOf, pass[s].rev).projectConfig} :
      /\ Log(s)[n].new <=>
           /\ key \notin {q.projectId : q \in Range(pass[s].config0.projects)}
           /\ \A m \in 1..(n - 1) : ~(Log(s)[m].op = "push" /\ Log(s)[m].key = key)
      /\ Log(s)[n].new =>
           /\ e = n + 3
           /\ ProjectWrite(s, n + 1, key, pc.contextFileName, pc.contextModule, FALSE)
           /\ ProjectWrite(s, n + 2, key, pc.fontsFileName, pc.fontsModule, FALSE)
           /\ Log(s)[n + 3].op = "push"
           /\ Log(s)[n + 3].entry =
                [projectId |-> key, contextFilePath |-> pc.contextFileName,
                 fontsFilePath |-> pc.fontsFileName,
                 contextTypeName |-> pc.contextTypeName]
           /\ Cardinality({k \in 1..Len(pass[s].config.projects) :
                            pass[s].config.projects[k].projectId = key}) = 1
      /\ ~Log(s)[n].new =>
           /\ Log(s)[n + 1].op = "fixPaths" /\ Log(s)[n + 1].key = key
           /\ IF Log(s)[e].op = "error"
                THEN /\ pass[s].pc = "exited"
                     /\ \A m \in n..e : Log(s)[m].op # "write"
              ELSE /\ e >= n + 5
                   /\ \A m \in (n + 2)..(e - 2) : Log(s)[m].op \in {"find", "warn", "set"}
                   /\ \A path \in ResolvedIn(s, n, e, "contextFilePath") :
                        ProjectWrite(s, e - 1, key, path, pc.contextModule, TRUE)
                   /\ \A path \in ResolvedIn(s, n, e, "fontsFilePath") :
                        ProjectWrite(s, e, key, path, pc.fontsModule, TRUE)
                   /\ ResolvedIn(s, n, e, "contextFilePath") # {}
                   /\ ResolvedIn(s, n, e, "fontsFilePath") # {}

\* A finished sync pass that tracked one project for the first time and
\* overwrote the moved context file of another where it found it.
C19_Witness ==
  \E s \in Slots : IsSync(s) /\ pass[s].pc = "done" /\
    /\ \E n \in ProjectSteps(s) : Log(s)[n].new
    /\ \E n \in ProjectSteps(s) :
         /\ ~Log(s)[n].new
         /\ \E m \in n..BlockEnd(s, n) :
              Log(s)[m].op = "set" /\ Log(s)[m].field = "contextFilePath"

\* The lookups of the cross-reference path made by the reconciliation of a
\* component that event n of pass s starts.
ModuleLookups(s, n) ==
  {m \in (n + 1)..Len(Log(s)) :
     /\ Log(s)[m].op = "find" /\ Log(s)[m].field = "modulePath"
     /\ Log(s)[m].key = Log(s)[n].key
     /\ \A l \in (n + 1)..m : Log(s)[l].op # "fixPaths"}

\* The reconciliation that event n starts ended the process.
ExitedIn(s, n) ==
  /\ pass[s].pc = "exited" /\ Log(s)[Len(Log(s))].op = "error"
  /\ \A l \in (n + 1)..Len(Log(s)) : Log(s)[l].op # "fixPaths"

\* The tracked entries whose cross-reference is an external package when
\* pass s loads the store.
ExternalEntries(s) ==
  {k \in DOMAIN pass[s].config0.components :
     ~IsLocalModulePath(pass[s].config0.components[k].modulePath)}

\* Pass s left the external cross-reference of entry k alone.
ExternalUntouched(s, k) ==
  \E c \in {pass[s].config0.components[k]} :
    /\ pass[s].config.components[k].modulePath = c.modulePath
    /\ PathJoin(SrcDir, c.modulePath) \notin DOMAIN fs
    /\ \A n \in Pos(s) :
         /\ (Log(s)[n].op \in {"find", "set"} /\ Log(s)[n].key = c.id) =>
              Log(s)[n].field # "modulePath"
         /\ Log(s)[n].op \in {"write", "rewrite", "readError"} =>
              Log(s)[n].path # c.modulePath

\* C20: the cross-reference path of a component is reconciled only while it
\* is a local path, and then it is (unless an ambiguous path ended the pass
\* first); when it is an external package reference, no sync pass and no
\* fix-imports run changes it, in memory or in the store, and none reads or
\* writes a file at that path.
C20_ExternalReferenceUntouched ==
  /\ [](\A s \in Slots :
          /\ \A k \in ExternalEntries(s) : ExternalUntouched(s, k)
          /\ \A n \in Pos(s) :
               (Log(s)[n].op = "fixPaths" /\ Log(s)[n].key \in CompIds) =>
                 /\ ModuleLookups(s, n) # {} => IsLocalModulePath(Log(s)[n].before.modulePath)
                 /\ (IsLocalModulePath(Log(s)[n].before.modulePath) /\ ~ExitedIn(s, n)) =>
                      ModuleLookups(s, n) # {})
  /\ [][userOps' = userOps =>
          \A k \in DOMAIN disk.components :
            ~IsLocalModulePath(disk.components[k].modulePath) =>
              /\ k \in DOMAIN disk'.components
              /\ disk'.components[k].modulePath = disk.components[k].modulePath]_vars

\* A finished sync pass that reconciled, overwrote and rewrote a component
\* whose cross-reference is external, next to one whose cross-reference is
\* local, and saved the store.
C20_Witness ==
  \E s \in Slots : IsSync(s) /\ pass[s].pc = "done" /\ HasOp(s, {"persist"}) /\
    /\ \E k \in ExternalEntries(s) :
         /\ \E n \in Pos(s) : Log(s)[n].op = "fixPaths"
                               /\ Log(s)[n].key = pass[s].config0.components[k].id
         /\ \E n \in Pos(s) : Log(s)[n].op = "rewrite"
                               /\ Log(s)[n].key = pass[s].config0.components[k].id
         /\ disk.components[k].modulePath = ExternalModule
    /\ \E n \in Pos(s) : ModuleLookups(s, n) # {}

\* Two entries of the table hold the same path in the field.
SharesPath(components, field) ==
  \E i \in DOMAIN components, j \in DOMAIN components :
    i # j /\ components[i][field] = components[j][field]

\* Event n of pass s sets a path of one component to the path another tracked
\* component holds in the same field.
ResolvedToAnothers(s, n) ==
  /\ Log(s)[n].op = "set"
  /\ Log(s)[n].field \in {"renderModuleFilePath", "cssFilePath"}
  /\ \E k \in DOMAIN pass[s].config.components :
       /\ pass[s].config.components[k].id # Log(s)[n].key
       /\ pass[s].config.components[k][Log(s)[n].field] = Log(s)[n].to

\* C21: if no two tracked components share a render-module path (nor a style
\* path) when a pass loads the table, reconciliation in that pass never sets
\* a path of one component to the tracked path of another component.
C21_ReconciliationKeepsPathsApart ==
  \A s \in Slots :
    (/\ ~SharesPath(pass[s].config0.components, "renderModuleFilePath")
     /\ ~SharesPath(pass[s].config0.components, "cssFilePath"))
      => \A n \in Pos(s) : ~ResolvedToAnothers(s, n)

\* Pass s was started without an explicit project list.
DefaultProjects(s) == IsSync(s) /\ Len(pass[s].opts.projects) = 0

\* The requests api.projectComponents of pass s made for project p.
FetchesOf(s, p) == {n \in DOMAIN pass[s].projectIds : pass[s].projectIds[n] = p}

\* The artifact (component or project) of the key is new in pass s and is
\* force-overwritten later in the same pass.
OverwrittenWhenNew(s, key) ==
  \E n \in Pos(s) :
    /\ Log(s)[n].op \in {"sync", "syncProject"} /\ Log(s)[n].key = key
    /\ Log(s)[n].new
    /\ \E m \in (n + 1)..Len(Log(s)) :
         Log(s)[m].op = "write" /\ Log(s)[m].key = key /\ Log(s)[m].force

\* C22: in a sync pass started without an explicit project list, each
\* distinct tracked project id is fetched once and its bundle is merged once,
\* and an artifact that is new in the pass is never force-overwritten in the
\* same pass.
C22_EachProjectOnce ==
  \A s \in Slots : DefaultProjects(s) =>
    /\ \A p \in ProjIds :
         /\ Cardinality(FetchesOf(s, p)) <= 1
         /\ Cardinality({n \in ProjectSteps(s) : Log(s)[n].key = p}) <= 1
    /\ \A key \in CompIds \cup ProjIds : ~OverwrittenWhenNew(s, key)

\* Two passes of one watch process overlapped and both have finished: the
\* second slot is taken only while the pass of the first awaits its fetch.
BothFinished ==
  \A s \in Slots : IsSync(s) /\ pass[s].pc = "done" /\ pass[s].rev > 0

\* The pass that started later fetched the later revision.
LaterStarted == CHOOSE s \in Slots : \A t \in Slots : pass[t].rev <= pass[s].rev

\* The components tracked before pass s that the pass overwrote.
OverwrittenExisting(s) ==
  {k \in DOMAIN pass[s].config0.components :
     \E n \in Pos(s) : /\ Log(s)[n].op = "sync" /\ ~Log(s)[n].new
                       /\ Log(s)[n].key = pass[s].config0.components[k].id}

\* The file at the path holds the content of the revision.
HoldsRevision(rel, revision) ==
  /\ Exists(fs, PathJoin(SrcDir, rel))
  /\ fs[PathJoin(SrcDir, rel)].rev = revision

\* C23: when two sync passes of a watch process overlap, then after both have
\* finished, whatever the order of the two fetch completions, the tracked
\* files of existing components hold the content fetched by the later-started
\* pass and the store holds the collections that pass saved, as after a
\* sequential run.
C23_OverlapEqualsSequential ==
  BothFinished =>
    \E s \in {LaterStarted} :
      /\ \A k \in OverwrittenExisting(s) :
           /\ HoldsRevision(pass[s].config.components[k].renderModuleFilePath, pass[s].rev)
           /\ HoldsRevision(pass[s].config.components[k].cssFilePath, pass[s].rev)
      /\ disk = [components |-> pass[s].config.components,
                 projects |-> pass[s].config.projects]

\* The table `after` keeps every entry of `before` at its place, with the
\* fields that are not paths unchanged.
ComponentsKept(before, after) ==
  /\ Len(after) >= Len(before)
  /\ \A k \in DOMAIN before :
       /\ after[k].id = before[k].id /\ after[k].name = before[k].name
       /\ after[k].type = before[k].type /\ after[k].projectId = before[k].projectId

ProjectsKept(before, after) ==
  /\ Len(after) >= Len(before)
  /\ \A k \in DOMAIN before :
       /\ after[k].projectId = before[k].projectId
       /\ after[k].contextTypeName = before[k].contextTypeName

\* C24: no sync pass and no fix-imports run removes or reorders a tracked
\* entry: every entry the run loaded is kept at its place with the same id,
\* name, kind and projectId, in memory and in what the run saves; a run only
\* appends entries and changes path fields.
C24_EntriesAreKept ==
  /\ [](\A s \in Slots :
          /\ ComponentsKept(pass[s].config0.components, pass[s].config.components)
          /\ ProjectsKept(pass[s].config0.projects, pass[s].config.projects))
  /\ [][\A s \in Slots :
          (running = s /\ pass[s].pc = "persist" /\ pass'[s].pc = "rewrite") =>
            /\ ComponentsKept(pass[s].config0.components, disk'.components)
            /\ ProjectsKept(pass[s].config0.projects, disk'.projects)]_vars
  /\ [][userOps' = userOps =>
          /\ ComponentsKept(disk.components, disk'.components)
          /\ ProjectsKept(disk.projects, disk'.projects)]_vars

\* A finished sync pass that loaded a tracked component, moved one of its
\* paths, synced it from the bundle of another project than the one it is
\* tracked under, appended a new entry, and saved the table.
C24_Witness ==
  \E s \in Slots : IsSync(s) /\ pass[s].pc = "done" /\
    /\ disk.components = pass[s].config.components
    /\ Len(pass[s].config.components) > Len(pass[s].config0.components)
    /\ \E k \in DOMAIN pass[s].config0.components :
         \E c \in {pass[s].config0.components[k]} :
           /\ \E n \in Pos(s) : Log(s)[n].op = "set" /\ Log(s)[n].key = c.id
           /\ \E n \in Pos(s) : /\ Log(s)[n].op = "sync" /\ Log(s)[n].key = c.id
                                /\ Log(s)[n].projectId # c.projectId
====
